---- MODULE Spec2Model ----
(***************************************************************************)
(* Resilient chapter-download engine of groogybot: Scraper.scrape and      *)
(* Scraper._download_chapter (src/scraper.py) over the chapter cache and   *)
(* the download-progress store of NovelCache (src/cache.py).               *)
(*                                                                         *)
(* One behaviour follows one Scraper that serves one novel for one caller  *)
(* (drawn in Init); scrape jobs run one after the other, each job with its *)
(* worker threads interleaved with the coordinating thread.                *)
(***************************************************************************)
EXTENDS Integers, Sequences, FiniteSets, TLC

(* ------------------------------ bounds -------------------------------- *)
\* number of distinct chapter URLs a listing can hold
MaxLinks == 2
\* a caller-supplied worker count below every tier
SmallWorkers == 1

\* responses handed to _track_bandwidth in one run
MaxResponses == 2

\* browsers one PlaywrightScraper launches in one run
MaxLaunches == 3

\* seconds of wall-clock time a run of check_site_health calls spans
MaxClock == 601

\* seconds of wall-clock time one supervisor run spans
MaxSupervisorClock == 400

(* ------------------------- program constants -------------------------- *)
\* _site_health_cache_ttl
_site_health_cache_ttl == 300
\* bot_supervisor.py
MAX_RESTART_ATTEMPTS == 5
RESTART_DELAY == 5
COOLDOWN_PERIOD == 60
WORKERS_NORMAL == 5
WORKERS_SPONSOR == 100
ProtectedWorkers == 2
RanobesWorkers == 1
MinBodyLen == 200
SaveEvery == 10
UnparsedNumber == 999999

(* ------------------------------ values -------------------------------- *)
\* Python's None / a present value
None == <<>>
Some(v) == <<v>>
IsSome(o) == o /= <<>>
Get(o) == o[1]

\* chapter URL u stands for ".../chapter-u"
URLs == 1..(MaxLinks + 1)
\* one novel per site family
Novels == {"generic", "ranobes", "novelbin", "novelbuddy"}
NoUser == "none"
Users == {"u1"}

Min(a, b) == IF a < b THEN a ELSE b
Max(a, b) == IF a > b THEN a ELSE b
Range(s) == {s[i] : i \in DOMAIN s}
RECURSIVE SelectSeqBy(_, _)
\* [x for x in s if x not in drop]
SelectSeqBy(s, drop) ==
  IF s = <<>> THEN <<>>
  ELSE IF Head(s) \in drop THEN SelectSeqBy(Tail(s), drop)
       ELSE <<Head(s)>> \o SelectSeqBy(Tail(s), drop)

\* Extracted chapter bodies: length, and which marker the text holds
\* ("rate" = 'Rate limited', "abn" = 'abnormal activity').
Bodies ==
  { [len |-> MinBodyLen + 1, marker |-> "none"],
    [len |-> MinBodyLen,     marker |-> "none"],
    [len |-> MinBodyLen + 1, marker |-> "abn"] }
\* the heading "chapter-k" of a chapter page
NumberedTitle(k) == "chapter-" \o ToString(k)
\* Headings of chapter pages: "Chapter" stands for "Chapter <n>: ..." written
\* with a blank, "" for a page whose heading is empty.
Titles ==
  {"Prologue", "Chapter", ""} \cup {NumberedTitle(k) : k \in 1..(MaxLinks + 1)}

(* ------------------------------ state --------------------------------- *)
VARIABLES
  novel,            \* the novel URL every job of this behaviour asks for
  user_id,          \* the caller's user id, or NoUser
  chapterCache,     \* NovelCache chapters/<novel>/<url>.json
  progress,         \* NovelCache progress/<user>_<novel>.json
  parallel_workers, \* Scraper.parallel_workers
  cancelled,        \* cancel_check() has returned true in this job
  pc,               \* position of the coordinating thread in scrape()
  job,              \* chapter_start, chapter_end of the running job
  metadata_result,  \* what get_novel_metadata returned to scrape()
  resume_info,      \* status of the progress record read at job start, if
                    \* there was one (scrape() only logs the rest of it)
  chapter_links,    \* sorted listing
  chapter_workers,  \* max_workers of the pool
  futures,          \* the submitted units, in submission order
  yielded,          \* futures already handed out by as_completed
  chapters, completed_urls, failed_urls, completed,
  total_to_download, \* the total the callback is given
  progress_calls,   \* the calls of progress_callback of this job, in order
  result            \* what scrape() returned

\* the state of Scraper.scrape and of the NovelCache stores it uses
scrapeVars == <<novel, user_id, chapterCache, progress, parallel_workers,
                cancelled, pc, job, metadata_result, resume_info,
                chapter_links, chapter_workers, futures, yielded, chapters,
                completed_urls, failed_urls, completed, total_to_download,
                progress_calls, result>>

\* One call of Scraper._get_with_retry
VARIABLES
  fpc,              \* position in _get_with_retry
  fdomain,          \* netloc of the requested URL
  fopts,            \* rotate_per_attempt, rotate_on_block
  attempt,          \* loop variable of the retry loop
  mirror_i,         \* position in SITE_MIRRORS[site_key]
  last_blocked,
  sent,             \* the requests issued so far, in order
  last_resp,        \* outcome of the latest request
  returned          \* what _get_with_retry returned

ladderVars == <<fpc, fdomain, fopts, attempt, mirror_i, last_blocked, sent,
                last_resp, returned>>

\* The directory tree of one NovelCache
VARIABLES
  cache_files,      \* the files below cache_dir: <<path, content>>
  cache_call        \* the clear_novel_chapters call that came last, if none
                    \* of the other calls came after it

cacheVars == <<cache_files, cache_call>>

\* The module state of playwright_scraper and the threads that use it
VARIABLES
  pw_loop,          \* _pw_loop: the event loop, named by the thread that made it
  pw_ready,         \* _pw_ready
  pw_error,         \* _pw_error is not None
  scraper_instance, \* _scraper_instance, named by the thread that made it
  lpc,              \* position of each _start_pw_loop thread
  loop_running,     \* loop.is_running() of each event loop
  callers,          \* position, and loop and instance obtained, of each caller
  pw_semaphore,     \* the caller whose coroutine holds _pw_semaphore
  browser           \* the PlaywrightScraper instances with a launched browser

pwVars == <<pw_loop, pw_ready, pw_error, scraper_instance, lpc, loop_running,
            callers, pw_semaphore, browser>>

\* One fetch_one coroutine of fetch_webnovel_chapters_parallel
VARIABLES
  wn_pc,            \* position in fetch_one
  wait_attempt,     \* loop variable of the Cloudflare wait loop
  polls,            \* page.title() calls made by the wait loop
  page_state,       \* what the page shows now
  page_open,        \* the page was opened and is not closed
  wn_title,         \* title, as last read
  wn_html,          \* html, as read by page.content()
  marker_at_exhaustion, \* the wait loop ran out while the marker was shown
  fetch_result      \* third component of the tuple fetch_one returned

challengeVars == <<wn_pc, wait_attempt, polls, page_state, page_open, wn_title,
                   wn_html, marker_at_exhaustion, fetch_result>>

\* The progress directory of one NovelCache
VARIABLES
  progress_dir,     \* the files of cache_dir/progress: name -> record
  progress_mtime,   \* the names of these files, least recently written first
  progress_call     \* the download-progress call that came last

progressVars == <<progress_dir, progress_mtime, progress_call>>

\* The counters the threads of one process share
VARIABLES
  bandwidth_month,  \* Scraper.bandwidth_month
  bandwidth_bytes,  \* Scraper.bandwidth_bytes
  tracked,          \* number and total size of the responses handed to
                    \* _track_bandwidth
  tb,               \* position and locals of each thread in _track_bandwidth
  site_health_cache, \* _site_health_cache: whether each host was found healthy
  hc                \* the host each thread is probing in check_site_health

counterVars == <<bandwidth_month, bandwidth_bytes, tracked, tb,
                 site_health_cache, hc>>

\* One Scraper and the fetch tiers one of its operations goes through
VARIABLES
  use_playwright,   \* Scraper.use_playwright
  flaresolverr_enabled, \* Scraper.flaresolverr_enabled
  tpc,              \* position inside the operation
  tier_op,          \* the operation: its kind and the site of its URL
  tier_log,         \* the tiers the operation has consulted, in order
  tier_ok,          \* the tier consulted last returned a page
  pw_touched        \* get_scraper_instance() was called

tierVars == <<use_playwright, flaresolverr_enabled, tpc, tier_op, tier_log,
              tier_ok, pw_touched>>

\* One PlaywrightScraper and the coroutine that runs on it
VARIABLES
  ps_browser,       \* self.browser: the launch it came from
  ps_connected,     \* self.browser.is_connected()
  ps_context,       \* self.context: the browser it was made in
  webnovel_context, \* self.webnovel_context: the browser it was made in
  contexts_created, \* cookie-seeded contexts made since __init__ or close()
  launches,         \* browsers launched so far
  auth_pc,          \* position of the running coroutine
  auth_used,        \* the context the authenticated fetch under way got
  webnovel_blocking_applied, \* self._webnovel_blocking_applied
  context_blocking_applied,  \* self._context_blocking_applied
  context_route     \* self.context has the route that aborts heavy resources

authVars == <<ps_browser, ps_connected, ps_context, webnovel_context,
              contexts_created, launches, auth_pc, auth_used,
              webnovel_blocking_applied, context_blocking_applied,
              context_route>>

\* The module-level health table and the clock check_site_health reads
VARIABLES
  _site_health_cache, \* cache_key -> (cached_time, cached_result), if any
  time_now,         \* time.time()
  health_call       \* the check_site_health call that came last

healthVars == <<_site_health_cache, time_now, health_call>>

\* The coroutines of the Playwright loop inside _ensure_browser and
\* _ensure_webnovel_context
VARIABLES
  semaphore_value,  \* free permits of _pw_semaphore
  lock_locked,      \* PlaywrightScraper._lock is held
  gate_browser,     \* self.browser: "none", "live" or "disconnected"
  gate_webnovel_context, \* self.webnovel_context is not None
  frames            \* the call stack of each coroutine, innermost frame last

gateVars == <<semaphore_value, lock_locked, gate_browser,
              gate_webnovel_context, frames>>

\* The bot's one Scraper and the jobs of its users
VARIABLES
  scraper_attrs,    \* parallel_workers, progress_callback and cancel_check of
                    \* NovelBot.scraper (a callback is named by the user whose
                    \* closure it is)
  user_states,      \* NovelBot.user_states: the 'cancelled' flag and the tier
                    \* of each user that has a state
  bot_job           \* each user's _scrape_with_progress call and what its
                    \* scrape() has read and called so far

sharedVars == <<scraper_attrs, user_states, bot_job>>

\* run_bot_with_supervisor
VARIABLES
  restart_count,    \* restart_count
  last_restart_time, \* last_restart_time, None at first
  supervisor_now,   \* time.time()
  supervisor_pc,    \* "launch", "running", "stopped" (break) or "gave_up"
  crash_run,        \* crashes of the bot since, and with, the last one that
                    \* came first or more than the cooldown after the one
                    \* before it
  supervisor_errors \* an exception of the supervisor itself was counted

supervisorVars == <<restart_count, last_restart_time, supervisor_now,
                    supervisor_pc, crash_run, supervisor_errors>>

\* everything outside Scraper.scrape
auxVars ==
  <<ladderVars, cacheVars, pwVars, challengeVars, progressVars, counterVars,
    tierVars, authVars, healthVars, gateVars, sharedVars, supervisorVars>>

\* what the actions of one subsystem leave alone
exceptLadder ==
  <<scrapeVars, cacheVars, pwVars, challengeVars, progressVars, counterVars,
    tierVars, authVars, healthVars, gateVars, sharedVars, supervisorVars>>
exceptCache ==
  <<scrapeVars, ladderVars, pwVars, challengeVars, progressVars,
    counterVars, tierVars, authVars, healthVars, gateVars, sharedVars,
    supervisorVars>>
exceptPw ==
  <<scrapeVars, ladderVars, cacheVars, challengeVars, progressVars,
    counterVars, tierVars, authVars, healthVars, gateVars, sharedVars,
    supervisorVars>>
exceptChallenge ==
  <<scrapeVars, ladderVars, cacheVars, pwVars, progressVars, counterVars,
    tierVars, authVars, healthVars, gateVars, sharedVars, supervisorVars>>
exceptProgress ==
  <<scrapeVars, ladderVars, cacheVars, pwVars, challengeVars, counterVars,
    tierVars, authVars, healthVars, gateVars, sharedVars, supervisorVars>>
exceptCounters ==
  <<scrapeVars, ladderVars, cacheVars, pwVars, challengeVars, progressVars,
    tierVars, authVars, healthVars, gateVars, sharedVars, supervisorVars>>
exceptTiers ==
  <<scrapeVars, ladderVars, cacheVars, pwVars, challengeVars, progressVars,
    counterVars, authVars, healthVars, gateVars, sharedVars,
    supervisorVars>>
exceptAuth ==
  <<scrapeVars, ladderVars, cacheVars, pwVars, challengeVars, progressVars,
    counterVars, tierVars, healthVars, gateVars, sharedVars,
    supervisorVars>>
exceptHealth ==
  <<scrapeVars, ladderVars, cacheVars, pwVars, challengeVars, progressVars,
    counterVars, tierVars, authVars, gateVars, sharedVars, supervisorVars>>
exceptGate ==
  <<scrapeVars, ladderVars, cacheVars, pwVars, challengeVars, progressVars,
    counterVars, tierVars, authVars, healthVars, sharedVars,
    supervisorVars>>
exceptShared ==
  <<scrapeVars, ladderVars, cacheVars, pwVars, challengeVars, progressVars,
    counterVars, tierVars, authVars, healthVars, gateVars, supervisorVars>>
exceptSupervisor ==
  <<scrapeVars, ladderVars, cacheVars, pwVars, challengeVars, progressVars,
    counterVars, tierVars, authVars, healthVars, gateVars, sharedVars>>

vars == <<scrapeVars, auxVars>>

(* --------------------------- NovelCache ------------------------------- *)
\* NovelCache.get_chapter
get_chapter(cache, chapter_url, novel_url) == cache[novel_url][chapter_url]

\* NovelCache.set_chapter
set_chapter(cache, chapter_url, content, novel_url) ==
  [cache EXCEPT ![novel_url][chapter_url] = Some(content)]

\* NovelCache.save_download_progress
save_download_progress(store, user, novel_url, rec) ==
  [store EXCEPT ![user][novel_url] = Some(rec)]

\* NovelCache.get_download_progress (with a novel_url)
get_download_progress(store, user, novel_url) == store[user][novel_url]

\* NovelCache.clear_download_progress (with a novel_url)
clear_download_progress(store, user, novel_url) ==
  [store EXCEPT ![user][novel_url] = None]

\* the progress dict scrape() saves (title and range are written, never read)
ProgressRecord(done, failed, status) ==
  [completed_chapters |-> done, failed_chapters |-> failed, status |-> status]

(* ------------------------- pure functions ----------------------------- *)
\* Scraper._extract_chapter_number on a chapter URL ".../chapter-u"
_extract_chapter_number(u) == IF u \in Nat THEN u ELSE UnparsedNumber

\* key of the listing sort: self._extract_chapter_number(x) or 0
LinkSortKey(u) ==
  IF _extract_chapter_number(u) = 0 THEN 0 ELSE _extract_chapter_number(u)

RECURSIVE InsertStable(_, _)
InsertStable(p, s) ==
  IF s = <<>> THEN <<p>>
  ELSE IF p[1] < Head(s)[1] THEN <<p>> \o s
       ELSE <<Head(s)>> \o InsertStable(p, Tail(s))

RECURSIVE StableSort(_)
\* Python's sorted()/list.sort() on <<key, value>> pairs: ascending, stable
StableSort(s) ==
  IF s = <<>> THEN <<>>
  ELSE InsertStable(s[Len(s)], StableSort(SubSeq(s, 1, Len(s) - 1)))

\* sorted(chapter_links, key=...)
SortLinks(links) ==
  LET keyed == [i \in DOMAIN links |-> <<LinkSortKey(links[i]), links[i]>>]
      sorted == StableSort(keyed)
  IN  [i \in DOMAIN sorted |-> sorted[i][2]]

\* chapters.sort(key=lambda x: x.get('chapter_num', 0))
SortChapters(chs) ==
  LET keyed == [i \in DOMAIN chs |-> <<chs[i].chapter_num, chs[i]>>]
      sorted == StableSort(keyed)
  IN  [i \in DOMAIN sorted |-> sorted[i][2]]

\* Python slice s[a:b] for 0 <= a, 0 <= b
Slice(s, a, b) == SubSeq(s, a + 1, Min(b, Len(s)))

IsRanobes(url) == url = "ranobes"
IsProtected(url) == url = "novelbin"
\* 'novelbuddy' in url
IsNovelBuddy(url) == url = "novelbuddy"

\* include_prologue = 'ranobes' in url and chapter_start == 1
IncludePrologue(url, chapter_start) == IsRanobes(url) /\ chapter_start = 1

\* chapter_links[start_idx:end_idx] of scrape(); chapter_end 0 stands for None
TargetLinks(links, url, chapter_start, chapter_end) ==
  LET start_idx == Max(0, chapter_start - 1)
      end0 == IF chapter_end /= 0 THEN chapter_end ELSE Len(links)
      end_idx == IF IncludePrologue(url, chapter_start) /\ chapter_end /= 0
                 THEN Min(Len(links), end0 + 1) ELSE end0
  IN  Slice(links, start_idx, end_idx)

\* index of the first chapter whose title starts with 'prologue', 0 if none
FirstPrologue(chs) ==
  IF \E i \in DOMAIN chs : chs[i].title = "Prologue"
  THEN CHOOSE i \in DOMAIN chs :
         /\ chs[i].title = "Prologue"
         /\ \A j \in 1..(i - 1) : chs[j].title /= "Prologue"
  ELSE 0

RemoveAt(s, i) == SubSeq(s, 1, i - 1) \o SubSeq(s, i + 1, Len(s))

\* title given to a main chapter by _normalize_chapters
FinalTitle(title_raw, is_ranobes) ==
  IF is_ranobes /\ title_raw /= "Chapter" THEN "Chapter N | title"
  ELSE title_raw

\* Scraper._normalize_chapters
_normalize_chapters(chs, include_prologue, chapter_start, chapter_end, url) ==
  IF chs = <<>> THEN chs
  ELSE
    LET p == FirstPrologue(chs)
        prologue_chapter ==
          IF ~include_prologue THEN None
          ELSE IF p /= 0 THEN Some(chs[p]) ELSE Some(chs[1])
        remaining0 ==
          IF ~include_prologue THEN chs
          ELSE IF p /= 0 THEN RemoveAt(chs, p) ELSE Tail(chs)
        desired_main == chapter_end - chapter_start + 1
        remaining == IF chapter_end /= 0 THEN Slice(remaining0, 0, desired_main)
                     ELSE remaining0
        main_start_num == IF include_prologue THEN 1 ELSE chapter_start
        normalized ==
          [i \in DOMAIN remaining |->
             [remaining[i] EXCEPT
                !.title = FinalTitle(remaining[i].title, IsRanobes(url)),
                !.chapter_num = main_start_num + i - 1]]
        output0 ==
          IF IsSome(prologue_chapter)
          THEN <<[Get(prologue_chapter) EXCEPT !.title = "Prologue",
                                               !.chapter_num = 0]>>
          ELSE <<>>
    IN  output0 \o normalized

\* _download_chapter: a cached record is used only if it is not junk
CachedContentValid(rec) ==
  rec.body.len > MinBodyLen /\ rec.body.marker /= "rate"

\* the cache guard without its length test
ShouldCacheAnyLength(body) == body.marker /= "rate" /\ body.marker /= "abn"

\* _download_chapter: "Cache the chapter content ONLY if it's valid"
ShouldCache(body) ==
  body.len > MinBodyLen /\ body.marker /= "rate" /\ body.marker /= "abn"

\* title_num = self._extract_chapter_number(title) if title else None;
\* the pattern chapter[-_]?(\d+) finds no number in "Chapter <n>"
TitleNumber(title) ==
  IF title = "" THEN None
  ELSE IF \E k \in 1..(MaxLinks + 1) : title = NumberedTitle(k)
       THEN Some(CHOOSE k \in 1..(MaxLinks + 1) : title = NumberedTitle(k))
       ELSE Some(UnparsedNumber)

\* _download_chapter: number_mismatch
NumberMismatch(expected_num, title, u) ==
  LET title_num == TitleNumber(title)
      url_num == _extract_chapter_number(u)
  IN  \/ expected_num /= 0 /\ IsSome(title_num) /\ Get(title_num) /= 0
         /\ Get(title_num) /= expected_num
      \/ expected_num /= 0 /\ url_num /= 0 /\ url_num /= expected_num

\* _download_chapter without its mismatch test
NoMismatchGuard(url, expected_num, title, u) == FALSE

\* _download_chapter: "If the numbers or slug path don't match, treat as
\* suspect": the chapter links of a listing lie under the novel's own path,
\* so slug_path_mismatch is false
MismatchGuard(url, expected_num, title, u) ==
  NumberMismatch(expected_num, title, u) /\ IsNovelBuddy(url)

ChapterData(url, chapter_num, title, body) ==
  [url |-> url, chapter_num |-> chapter_num, title |-> title, body |-> body]

(* --------------------------- environment ------------------------------ *)
FullListing == [i \in 1..MaxLinks |-> i]
ReversedListing == [i \in 1..MaxLinks |-> MaxLinks + 1 - i]

\* What link collection can hand to scrape(): nothing, or the links of the
\* listing page in page order (_get_chapter_links_from_html and
\* _get_ranobes_chapter_links drop repeated links); for a protected site the
\* browser pagination concatenates the pages, so a link of page 1 (here its
\* first) can come again from page 2.
Listings(url) ==
  {<<>>, FullListing, ReversedListing}
    \cup (IF IsProtected(url) THEN {FullListing \o <<1>>} ELSE {})

\* chapter ranges a caller asks for: <<chapter_start, chapter_end>>, 0 = None
Ranges == {<<1, 0>>, <<1, 1>>}

\* worker counts a caller sets (bot tiers, or a Scraper built with fewer)
WorkerChoices == {SmallWorkers, WORKERS_NORMAL, WORKERS_SPONSOR}

\* title of the page of chapter u
TitlesOf(url, u) ==
  IF IsRanobes(url) /\ u = 1 THEN {"Prologue", "Chapter"}
  ELSE IF IsNovelBuddy(url)
       THEN {"", "Chapter", NumberedTitle(u), NumberedTitle(u + 1)}
       ELSE {"Chapter"}

(* ------------------------------- Init --------------------------------- *)
\* no call of _get_with_retry is under way
LadderIdle ==
  /\ fpc = "idle"
  /\ fdomain = "royalroad.com"
  /\ fopts = [rotate_per_attempt |-> FALSE, rotate_on_block |-> FALSE]
  /\ attempt = 0
  /\ mirror_i = 1
  /\ last_blocked = FALSE
  /\ sent = <<>>
  /\ last_resp = None
  /\ returned = None

\* NovelCache.__init__ on a fresh directory: no file
CacheIdle ==
  /\ cache_files = {}
  /\ cache_call = None

\* threads that _start_pw_loop can be started on
MaxLoopThreads == 2
LoopThreads == 1..MaxLoopThreads
\* threads of the program that use the browser
Callers == {"c1", "c2"}

\* playwright_scraper as imported: no loop, no thread, no instance; every
\* caller is about to call get_scraper_instance()
PwIdle ==
  /\ pw_loop = None
  /\ pw_ready = FALSE
  /\ pw_error = FALSE
  /\ scraper_instance = None
  /\ lpc = [t \in LoopThreads |-> "unstarted"]
  /\ loop_running = [t \in LoopThreads |-> FALSE]
  /\ callers = [c \in Callers |->
                  [pc |-> "call", phase |-> 1, loop |-> None, inst |-> None]]
  /\ pw_semaphore = None
  /\ browser = {}

\* no fetch_one coroutine has started
ChallengeIdle ==
  /\ wn_pc = "idle"
  /\ wait_attempt = 0
  /\ polls = 0
  /\ page_state = "blank"
  /\ page_open = FALSE
  /\ wn_title = None
  /\ wn_html = None
  /\ marker_at_exhaustion = FALSE
  /\ fetch_result = None

\* no progress file, no call made
ProgressIdle ==
  /\ progress_dir = <<>>
  /\ progress_mtime = <<>>
  /\ progress_call = None

\* Scraper.__init__ and the module's empty table; no thread is in either
\* function
CountersIdle ==
  /\ bandwidth_month = None
  /\ bandwidth_bytes = 0
  /\ tracked = [count |-> 0, bytes |-> 0]
  /\ tb = [t \in {"w1", "w2"} |-> [pc |-> "out", size |-> 0, loaded |-> 0]]
  /\ site_health_cache = [h \in {"host-a", "host-b"} |-> None]
  /\ hc = [t \in {"w1", "w2"} |-> None]

\* no Scraper constructed yet
TiersIdle ==
  /\ use_playwright = FALSE
  /\ flaresolverr_enabled = FALSE
  /\ tpc = "new"
  /\ tier_op = None
  /\ tier_log = <<>>
  /\ tier_ok = FALSE
  /\ pw_touched = FALSE

\* PlaywrightScraper.__init__: no browser, no context
AuthIdle ==
  /\ ps_browser = None
  /\ ps_connected = FALSE
  /\ ps_context = None
  /\ webnovel_context = None
  /\ contexts_created = 0
  /\ launches = 0
  /\ auth_pc = "idle"
  /\ auth_used = None
  /\ webnovel_blocking_applied = FALSE
  /\ context_blocking_applied = FALSE
  /\ context_route = FALSE

\* scraper.py imported: _site_health_cache = {}
HealthIdle ==
  /\ _site_health_cache = [k \in {"host-a", "host-b"} |-> <<>>]
  /\ time_now = 0
  /\ health_call = <<>>

\* _pw_semaphore = asyncio.Semaphore(1), a new PlaywrightScraper, no call
GateIdle ==
  /\ semaphore_value = 1
  /\ lock_locked = FALSE
  /\ gate_browser = "none"
  /\ gate_webnovel_context = FALSE
  /\ frames = [t \in {"t1", "t2"} |-> <<>>]

\* NovelBot.__init__: Scraper() with its defaults, no user state, no job
SharedIdle ==
  /\ scraper_attrs = [parallel_workers |-> 3, progress_callback |-> <<>>,
                      cancel_check |-> <<>>]
  /\ user_states = [u \in {"u1", "u2"} |-> <<>>]
  /\ bot_job = [u \in {"u1", "u2"} |->
                  [pc |-> "idle", tier |-> "normal", left |-> 0,
                   workers |-> 0, polled |-> {}, reported |-> {},
                   stopped_by |-> <<>>]]

\* run_bot_with_supervisor is entered
SupervisorIdle ==
  /\ restart_count = 0
  /\ last_restart_time = <<>>
  /\ supervisor_now = 1
  /\ supervisor_pc = "launch"
  /\ crash_run = 0
  /\ supervisor_errors = FALSE

\* every subsystem but Scraper.scrape at rest
AuxIdle ==
  /\ LadderIdle
  /\ CacheIdle
  /\ PwIdle
  /\ ChallengeIdle
  /\ ProgressIdle
  /\ CountersIdle
  /\ TiersIdle
  /\ AuthIdle
  /\ HealthIdle
  /\ GateIdle
  /\ SharedIdle
  /\ SupervisorIdle

\* a Scraper and an empty NovelCache, no job started
ScrapeInit ==
  /\ novel \in Novels
  /\ user_id \in Users \cup {NoUser}
  /\ chapterCache = [n \in Novels |-> [u \in URLs |-> None]]
  /\ progress = [w \in Users |-> [n \in Novels |-> None]]
  /\ parallel_workers = 3
  /\ cancelled = FALSE
  /\ pc = "idle"
  /\ job = [chapter_start |-> 1, chapter_end |-> 0]
  /\ metadata_result = None
  /\ resume_info = None
  /\ chapter_links = <<>>
  /\ chapter_workers = 3
  /\ futures = <<>>
  /\ yielded = {}
  /\ chapters = <<>>
  /\ completed_urls = <<>>
  /\ failed_urls = <<>>
  /\ completed = 0
  /\ total_to_download = 0
  /\ progress_calls = <<>>
  /\ result = None

Init == ScrapeInit /\ AuxIdle

(* ----------------------- scrape(): before the pool -------------------- *)
HasUser == user_id /= NoUser

RECURSIVE PreloadFrom(_, _, _)
\* for link_url in target_links: cached = cache.get_chapter(link_url, url)
PreloadFrom(cache, links, url) ==
  IF links = <<>> THEN <<>>
  ELSE LET c == get_chapter(cache, Head(links), url)
       IN  (IF IsSome(c) THEN <<[url |-> Head(links), rec |-> Get(c)]>>
            ELSE <<>>) \o PreloadFrom(cache, Tail(links), url)

\* number handed to _download_chapter for the i-th (1-based) remaining link
DispatchNumber(i, chapter_start, ncompleted) ==
  (i - 1) + chapter_start + ncompleted

\* the pool sized without the Ranobes exception
ChapterWorkersAsRequested(url, workers) == workers

\* max_workers of the pool
ChapterWorkers(url, workers) == IF IsRanobes(url) THEN RanobesWorkers ELSE workers

\* self.parallel_workers after the protected-site branch
ReducedWorkers(url, workers) ==
  IF IsProtected(url) THEN Min(workers, ProtectedWorkers) ELSE workers

ErrorResult == [error |-> TRUE, chapters |-> <<>>, failed_chapters |-> 0]

\* get_novel_metadata: the dictionary for a fetched page, and the one of its
\* 'Failed to fetch URL' returns
MetadataResults(fetched) ==
  IF fetched THEN [title |-> "Novel", error |-> FALSE]
  ELSE [title |-> "Unknown", error |-> TRUE]

\* scrape(): 'error' in metadata_result and not metadata_result.get('title')
MetadataAborts(m) == m.error /\ m.title = ""

\* total_to_download after the resume block
TotalAfterPreload(target0, target, done0) ==
  IF done0 /= <<>> THEN Len(target) + Len(done0) ELSE Len(target0)

\* scrape() is called and fetches the metadata page
GetNovelMetadata(fetched) ==
  /\ UNCHANGED auxVars
  /\ pc \in {"idle", "done"}
  /\ pc' = "metadata"
  /\ metadata_result' = Some(MetadataResults(fetched))
  /\ result' = None
  /\ UNCHANGED <<novel, user_id, chapterCache, progress, parallel_workers,
                 cancelled, job, resume_info, chapter_links, chapter_workers,
                 futures, yielded, chapters, completed_urls, failed_urls,
                 completed, total_to_download>>
  /\ progress_calls' = <<>>

\* scrape() from the metadata test to the submission of every unit to the
\* pool (the progress record read at entry is not written in between)
StartJob(range, workers, listing) ==
  /\ UNCHANGED auxVars
  /\ pc = "metadata"
  /\ metadata_result' = None
  /\ LET cs == range[1]
         ce == range[2]
         ri == IF HasUser THEN get_download_progress(progress, user_id, novel)
               ELSE None
         pw == ReducedWorkers(novel, workers)
         links == SortLinks(listing)
         target0 == TargetLinks(links, novel, cs, ce)
         pre == IF IsSome(ri) THEN PreloadFrom(chapterCache, target0, novel)
                ELSE <<>>
         done0 == [i \in DOMAIN pre |-> pre[i].url]
         target == IF done0 /= <<>> THEN SelectSeqBy(target0, Range(done0))
                   ELSE target0
     IN
       /\ job' = [chapter_start |-> cs, chapter_end |-> ce]
       /\ parallel_workers' = pw
       /\ cancelled' = FALSE
       /\ yielded' = {}
       /\ failed_urls' = <<>>
       /\ IF MetadataAborts(Get(metadata_result)) \/ target0 = <<>>
          THEN /\ pc' = "done"
               /\ result' = Some(ErrorResult)
               /\ futures' = <<>>
               /\ chapters' = <<>>
               /\ completed_urls' = <<>>
               /\ completed' = 0
               /\ total_to_download' = 0
               /\ progress_calls' = <<>>
               /\ chapter_workers' = chapter_workers
               /\ progress' = progress
               /\ resume_info' = None
               /\ chapter_links' = <<>>
          ELSE /\ pc' = "downloading"
               /\ resume_info' = IF IsSome(ri) THEN Some(Get(ri).status)
                                  ELSE None
               /\ chapter_links' = links
               /\ result' = None
               /\ chapters' = [i \in DOMAIN pre |-> pre[i].rec]
               /\ completed_urls' = done0
               /\ completed' = Len(done0)
               /\ total_to_download' = TotalAfterPreload(target0, target, done0)
               /\ progress_calls' = <<<<0, Len(target0)>>>>
               /\ progress' =
                    IF HasUser
                    THEN save_download_progress(progress, user_id, novel,
                           ProgressRecord(done0, <<>>, "in_progress"))
                    ELSE progress
               /\ chapter_workers' = ChapterWorkers(novel, pw)
               /\ futures' =
                    [i \in DOMAIN target |->
                       [url |-> target[i],
                        num |-> DispatchNumber(i, cs, Len(done0)),
                        state |-> "pending",
                        result |-> None,
                        mismatch |-> FALSE]]
  /\ UNCHANGED <<novel, user_id, chapterCache>>

(* ------------------------- the worker pool ---------------------------- *)
Running == {i \in DOMAIN futures : futures[i].state \in {"hit", "fetching"}}
Pending == {i \in DOMAIN futures : futures[i].state = "pending"}
Finished == {i \in DOMAIN futures : futures[i].state = "done"}

\* a pool that starts a thread for every queued unit
WorkerAlwaysFree == TRUE

\* the pool has a free worker thread
WorkerFree == Cardinality(Running) < chapter_workers

\* the work queue is FIFO: the next unit to start is the oldest queued one
NextQueued(i) == i \in Pending /\ \A j \in Pending : i <= j

\* _download_chapter without its cache check
CacheLookupSkipped(cache, url, novel_url) == None

\* _download_chapter, cache lookup: the cached record is returned iff present
\* and not junk
CacheLookup(cache, url, novel_url) ==
  LET c == get_chapter(cache, url, novel_url)
  IN  IF IsSome(c) /\ CachedContentValid(Get(c)) THEN c ELSE None

\* A worker thread takes the next queued unit and runs _download_chapter up
\* to its cache lookup.
StartDownload(i) ==
  /\ UNCHANGED <<auxVars, metadata_result>>
  /\ pc \in {"downloading", "cancelling", "joining", "raising"}
  /\ NextQueued(i)
  /\ WorkerFree
  /\ LET c == CacheLookup(chapterCache, futures[i].url, novel)
     IN  futures' = [futures EXCEPT
                       ![i].state = IF IsSome(c) THEN "hit" ELSE "fetching",
                       ![i].result = c]
  /\ UNCHANGED <<novel, user_id, chapterCache, progress, parallel_workers,
                 cancelled, pc, job, resume_info, chapter_links,
                 chapter_workers, yielded, chapters, completed_urls,
                 failed_urls, completed, total_to_download,
                 progress_calls, result>>

\* _download_chapter returns the cached record
ReturnCached(i) ==
  /\ UNCHANGED <<auxVars, metadata_result>>
  /\ i \in DOMAIN futures
  /\ futures[i].state = "hit"
  /\ futures' = [futures EXCEPT ![i].state = "done"]
  /\ UNCHANGED <<novel, user_id, chapterCache, progress, parallel_workers,
                 cancelled, pc, job, resume_info, chapter_links,
                 chapter_workers, yielded, chapters, completed_urls,
                 failed_urls, completed, total_to_download,
                 progress_calls, result>>

\* the chapter cache after _download_chapter built chapter_data
CacheAfterDownload(cache, data, novel_url) ==
  IF ShouldCache(data.body) THEN set_chapter(cache, data.url, data, novel_url)
  ELSE cache

\* _download_chapter fetched and parsed a page: on a NovelBuddy mismatch it
\* returns None; otherwise it caches the chapter if its body is valid and
\* returns it.  (mismatch records that the guard fired.)
FetchChapter(i, title, body) ==
  /\ UNCHANGED <<auxVars, metadata_result>>
  /\ i \in DOMAIN futures
  /\ futures[i].state = "fetching"
  /\ title \in TitlesOf(novel, futures[i].url)
  /\ LET data == ChapterData(futures[i].url, futures[i].num, title, body)
     IN  IF MismatchGuard(novel, futures[i].num, title, futures[i].url)
         THEN /\ chapterCache' = chapterCache
              /\ futures' = [futures EXCEPT ![i].state = "done",
                                            ![i].result = None,
                                            ![i].mismatch = TRUE]
         ELSE /\ chapterCache' = CacheAfterDownload(chapterCache, data, novel)
              /\ futures' = [futures EXCEPT ![i].state = "done",
                                            ![i].result = Some(data)]
  /\ UNCHANGED <<novel, user_id, progress, parallel_workers, cancelled, pc,
                 job, resume_info, chapter_links, chapter_workers, yielded,
                 chapters, completed_urls, failed_urls, completed,
                 total_to_download, progress_calls, result>>

\* _download_chapter returns None: every fetch method failed, or it raised
FetchFails(i) ==
  /\ UNCHANGED <<auxVars, metadata_result>>
  /\ i \in DOMAIN futures
  /\ futures[i].state = "fetching"
  /\ futures' = [futures EXCEPT ![i].state = "done", ![i].result = None]
  /\ UNCHANGED <<novel, user_id, chapterCache, progress, parallel_workers,
                 cancelled, pc, job, resume_info, chapter_links,
                 chapter_workers, yielded, chapters, completed_urls,
                 failed_urls, completed, total_to_download,
                 progress_calls, result>>

(* -------------------- scrape(): the as_completed loop ----------------- *)
JobProgress(status) == ProgressRecord(completed_urls, failed_urls, status)

\* as_completed yields a finished unit, cancel_check is unset or returns
\* false: the loop body books the unit
Collect(i) ==
  /\ UNCHANGED <<auxVars, metadata_result>>
  /\ pc = "downloading"
  /\ i \in Finished \ yielded
  /\ yielded' = yielded \cup {i}
  /\ LET ok == IsSome(futures[i].result)
         done1 == IF ok THEN Append(completed_urls, futures[i].url)
                  ELSE completed_urls
         failed1 == IF ok THEN failed_urls
                    ELSE Append(failed_urls, futures[i].url)
     IN  /\ chapters' = IF ok THEN Append(chapters, Get(futures[i].result))
                        ELSE chapters
         /\ completed_urls' = done1
         /\ failed_urls' = failed1
         /\ completed' = completed + 1
         /\ progress_calls' =
              Append(progress_calls, <<completed + 1, total_to_download>>)
         /\ progress' =
              IF HasUser /\ (completed + 1) % SaveEvery = 0
              THEN save_download_progress(progress, user_id, novel,
                     ProgressRecord(done1, failed1, "in_progress"))
              ELSE progress
  /\ UNCHANGED <<novel, user_id, chapterCache, parallel_workers, cancelled, pc,
                 job, resume_info, chapter_links, chapter_workers, futures,
                 total_to_download, result>>

\* executor.shutdown(wait=False) without cancel_futures
KeepQueued(fs) == fs

\* executor.shutdown(wait=False, cancel_futures=True): the queued units
\* are cancelled, the running ones go on
CancelQueued(fs) ==
  [i \in DOMAIN fs |->
     IF fs[i].state = "pending" THEN [fs[i] EXCEPT !.state = "cancelled"]
     ELSE fs[i]]

\* as_completed yields a finished unit and cancel_check() returns true: the
\* loop enters its cancel branch (the yielded unit is not booked). The
\* worker threads go on while the branch runs.
ObserveCancel(i) ==
  /\ UNCHANGED <<auxVars, metadata_result>>
  /\ pc = "downloading"
  /\ i \in Finished \ yielded
  /\ yielded' = yielded \cup {i}
  /\ cancelled' = TRUE
  /\ pc' = "cancelling"
  /\ UNCHANGED <<novel, user_id, chapterCache, progress, parallel_workers, job,
                 resume_info, chapter_links, chapter_workers, futures,
                 chapters, completed_urls, failed_urls, completed,
                 total_to_download, progress_calls, result>>

\* the cancel branch: shut the pool down, save the partial progress, break
Shutdown ==
  /\ UNCHANGED <<auxVars, metadata_result>>
  /\ pc = "cancelling"
  /\ futures' = CancelQueued(futures)
  /\ progress' = IF HasUser
                 THEN save_download_progress(progress, user_id, novel,
                                             JobProgress("partial"))
                 ELSE progress
  /\ pc' = "joining"
  /\ UNCHANGED <<novel, user_id, chapterCache, parallel_workers, cancelled,
                 job, resume_info, chapter_links, chapter_workers, yielded,
                 chapters, completed_urls, failed_urls, completed,
                 total_to_download, progress_calls, result>>

\* as_completed yields a finished unit and a callback of the loop body
\* raises before the unit is booked: the with-block is left through
\* ThreadPoolExecutor.__exit__, which waits for every unit, queued ones too
LoopRaises(i) ==
  /\ UNCHANGED <<auxVars, metadata_result>>
  /\ pc = "downloading"
  /\ i \in Finished \ yielded
  /\ yielded' = yielded \cup {i}
  /\ pc' = "raising"
  /\ UNCHANGED <<novel, user_id, chapterCache, progress, parallel_workers,
                 cancelled, job, resume_info, chapter_links, chapter_workers,
                 futures, chapters, completed_urls, failed_urls, completed,
                 total_to_download, progress_calls, result>>

\* the progress store the handler leaves with the record never written
ProgressLeftAsIs(store) == store

\* except Exception: the record is saved with status 'failed'
ProgressAfterException(store) ==
  IF HasUser
  THEN save_download_progress(store, user_id, novel,
                              ProgressRecord(completed_urls, <<>>, "failed"))
  ELSE store

\* the pool has drained, the handler saves the record and returns the error
\* dictionary
HandleException ==
  /\ UNCHANGED <<auxVars, metadata_result>>
  /\ pc = "raising"
  /\ Running = {}
  /\ Pending = {}
  /\ pc' = "done"
  /\ progress' = ProgressAfterException(progress)
  /\ result' = Some(ErrorResult)
  /\ resume_info' = None
  /\ chapter_links' = <<>>
  /\ futures' = <<>>
  /\ yielded' = {}
  /\ chapters' = <<>>
  /\ completed_urls' = <<>>
  /\ failed_urls' = <<>>
  /\ completed' = 0
  /\ total_to_download' = 0
  /\ UNCHANGED <<novel, user_id, chapterCache, parallel_workers, cancelled,
                 job, chapter_workers, progress_calls>>

\* the end of scrape() clearing the record whatever failed
ProgressAlwaysCleared(store) ==
  IF user_id /= NoUser THEN clear_download_progress(store, user_id, novel)
  ELSE store

\* the progress store when scrape() returns
ProgressAtEnd(store) ==
  IF ~HasUser THEN store
  ELSE IF failed_urls /= <<>>
       THEN save_download_progress(store, user_id, novel, JobProgress("partial"))
       ELSE clear_download_progress(store, user_id, novel)

\* the chapters scrape() returns
FinalChapters(chs) ==
  _normalize_chapters(SortChapters(chs),
                      IncludePrologue(novel, job.chapter_start),
                      job.chapter_start, job.chapter_end, novel)

\* the result dictionary with the failures left uncounted
JobResultNoFailures(chs, failed) ==
  [error |-> FALSE, chapters |-> FinalChapters(chs), failed_chapters |-> 0]

\* the dictionary scrape() returns after the pool
JobResult(chs, failed) ==
  [error |-> FALSE, chapters |-> FinalChapters(chs),
   failed_chapters |-> Len(failed)]

\* The with-block is left once no unit is queued or running: sort,
\* normalize, settle the progress record and return (the locals are gone).
Finish ==
  /\ UNCHANGED <<auxVars, metadata_result>>
  /\ \/ pc = "joining"
     \/ pc = "downloading" /\ yielded = DOMAIN futures
  /\ Running = {}
  /\ Pending = {}
  /\ pc' = "done"
  /\ progress' = ProgressAtEnd(progress)
  /\ result' = Some(JobResult(chapters, failed_urls))
  /\ resume_info' = None
  /\ chapter_links' = <<>>
  /\ futures' = <<>>
  /\ yielded' = {}
  /\ chapters' = <<>>
  /\ completed_urls' = <<>>
  /\ failed_urls' = <<>>
  /\ completed' = 0
  /\ total_to_download' = 0
  /\ UNCHANGED <<novel, user_id, chapterCache, parallel_workers, cancelled,
                 job, chapter_workers, progress_calls>>

Next ==
  \/ \E fetched \in BOOLEAN : GetNovelMetadata(fetched)
  \/ \E r \in Ranges, w \in WorkerChoices, l \in Listings(novel) :
       StartJob(r, w, l)
  \/ \E i \in 1..(MaxLinks + 1) : StartDownload(i)
  \/ \E i \in 1..(MaxLinks + 1) : ReturnCached(i)
  \/ \E i \in 1..(MaxLinks + 1), t \in Titles, b \in Bodies : FetchChapter(i, t, b)
  \/ \E i \in 1..(MaxLinks + 1) : FetchFails(i)
  \/ \E i \in 1..(MaxLinks + 1) : Collect(i)
  \/ \E i \in 1..(MaxLinks + 1) : ObserveCancel(i)
  \/ Shutdown
  \/ \E i \in 1..(MaxLinks + 1) : LoopRaises(i)
  \/ HandleException
  \/ Finish

Spec == Init /\ [][Next]_vars


(* ------------------- Scraper._get_with_retry -------------------------- *)
\* self.max_retries
max_retries == 4

\* SITE_MIRRORS
SITE_MIRRORS(site_key) ==
  CASE site_key = "novelbin" ->
         <<"novelbin.me", "novelbin.com", "novelbin.cfd", "novelbin.net",
           "novelbin.org", "novelbin.cc", "novelbin.tv">>
    [] site_key = "lightnovelworld" ->
         <<"lightnovelworld.com", "lightnovelworld.co", "lnworld.com">>
    [] site_key = "freewebnovel" ->
         <<"freewebnovel.com", "freewebnovel.me", "freewebnovel.net">>
    [] site_key = "novelfire" ->
         <<"novelfire.net", "novelfire.com", "novelfire.org">>
    [] OTHER -> <<>>

\* hosts a caller asks _get_with_retry for
FetchDomains ==
  {"novelbin.com", "lightnovelworld.co", "novelfire.net", "ranobes.net",
   "royalroad.com"}

\* the key of SITE_MIRRORS contained in the host name, "" if none
SiteKey(domain) ==
  CASE domain = "novelbin.com" -> "novelbin"
    [] domain = "lightnovelworld.co" -> "lightnovelworld"
    [] domain = "novelfire.net" -> "novelfire"
    [] OTHER -> ""

\* heavy_security: 'ranobes', 'novelbin' or 'lightnovelworld' in the host
HeavySecurity(domain) ==
  domain \in {"novelbin.com", "lightnovelworld.co", "ranobes.net"}

\* the flag pairs the callers pass
FetchOptions ==
  { [rotate_per_attempt |-> FALSE, rotate_on_block |-> FALSE],
    [rotate_per_attempt |-> FALSE, rotate_on_block |-> TRUE],
    [rotate_per_attempt |-> TRUE,  rotate_on_block |-> TRUE] }

\* what the start of a page (its first 800 characters, 500 on a mirror) holds
PageKinds ==
  {"content", "just a moment", "checking your browser", "abnormal activity"}

\* outcomes of session.get: a response, or an exception
Outcomes ==
  {[kind |-> "response", status |-> 200, page |-> p] : p \in PageKinds}
    \cup {[kind |-> "response", status |-> st, page |-> "content"] :
            st \in {403, 503, 429, 404}}
    \cup {[kind |-> k, status |-> 0, page |-> "content"] :
            k \in {"Timeout", "ConnectionError"}}

\* the retry loop's verdict on a response of the original domain
AttemptBlocked(resp) ==
  IF resp.status = 200
  THEN resp.page \in {"just a moment", "checking your browser",
                      "abnormal activity"}
  ELSE resp.status \in {403, 503, 429}

\* a retry loop that returns whatever comes with status 200
AttemptReturnsAny200(resp) == resp.kind = "response" /\ resp.status = 200

\* the retry loop returns the response
AttemptReturns(resp) ==
  resp.kind = "response" /\ resp.status = 200 /\ ~AttemptBlocked(resp)

\* the mirror loop returns the response
MirrorReturns(resp) ==
  /\ resp.kind = "response"
  /\ resp.status = 200
  /\ resp.page /= "checking your browser"

\* a mirror loop that skips nothing
SkipNoMirror(mirror_domain, domain) == FALSE

\* 'if mirror_domain in url: continue'
SkipMirror(mirror_domain, domain) == mirror_domain = domain

\* index of the first mirror from position i on that is not skipped,
\* Len + 1 if there is none
RECURSIVE NextMirrorFrom(_, _, _)
NextMirrorFrom(table, i, domain) ==
  IF i > Len(table) THEN i
  ELSE IF SkipMirror(table[i], domain) THEN NextMirrorFrom(table, i + 1, domain)
       ELSE i

\* session of an attempt on the original domain
AttemptSession(domain, opts, blocked_before) ==
  IF opts.rotate_per_attempt /\ HeavySecurity(domain) THEN "rotated"
  ELSE IF opts.rotate_on_block /\ HeavySecurity(domain) /\ blocked_before
       THEN "rotated"
       ELSE IF HeavySecurity(domain) THEN "fresh" ELSE "shared"

\* session of a request to a mirror
MirrorSession(domain, opts) ==
  IF opts.rotate_per_attempt /\ HeavySecurity(domain) THEN "rotated"
  ELSE "shared"

\* every attempt with the session's header set
AlwaysStableHeaders(k) == "stable"

\* _get_random_headers on the first attempt, _get_cloudflare_bypass_headers
\* afterwards
AttemptHeaders(k) == IF k = 0 THEN "stable" ELSE "bypass"

\* A caller enters _get_with_retry
CallGetWithRetry(domain, opts) ==
  /\ fpc \in {"idle", "returned"}
  /\ fpc' = "attempts"
  /\ fdomain' = domain
  /\ fopts' = opts
  /\ attempt' = 0
  /\ mirror_i' = 1
  /\ last_blocked' = FALSE
  /\ sent' = <<>>
  /\ last_resp' = None
  /\ returned' = None
  /\ UNCHANGED exceptLadder

\* where the function goes once the mirror at position i is the next one
AfterOriginal(domain) ==
  NextMirrorFrom(SITE_MIRRORS(SiteKey(domain)), 1, domain)

\* One pass of the retry loop: a request to the original domain
TryOriginal(outcome) ==
  /\ fpc = "attempts"
  /\ attempt < max_retries
  /\ sent' = Append(sent, [domain |-> fdomain,
                           headers |-> AttemptHeaders(attempt),
                           session |-> AttemptSession(fdomain, fopts,
                                                      last_blocked)])
  /\ last_resp' = Some(outcome)
  /\ IF AttemptReturns(outcome)
     THEN /\ returned' = Some(outcome)
          /\ fpc' = "returned"
          /\ UNCHANGED <<attempt, mirror_i, last_blocked>>
     ELSE /\ last_blocked' = IF outcome.kind = "response"
                             THEN AttemptBlocked(outcome) ELSE TRUE
          /\ attempt' = attempt + 1
          /\ mirror_i' = AfterOriginal(fdomain)
          /\ IF attempt + 1 < max_retries THEN fpc' = "attempts"
             ELSE IF AfterOriginal(fdomain)
                       <= Len(SITE_MIRRORS(SiteKey(fdomain)))
                  THEN fpc' = "mirrors"
                  ELSE fpc' = "returned"
          /\ returned' = None
  /\ UNCHANGED <<fdomain, fopts>>
  /\ UNCHANGED exceptLadder

\* One pass of the mirror loop: a request to the next mirror
TryMirror(outcome) ==
  /\ fpc = "mirrors"
  /\ LET table == SITE_MIRRORS(SiteKey(fdomain))
         nxt == NextMirrorFrom(table, mirror_i + 1, fdomain)
     IN  /\ sent' = Append(sent, [domain |-> table[mirror_i],
                                  headers |-> "bypass",
                                  session |-> MirrorSession(fdomain, fopts)])
         /\ last_resp' = Some(outcome)
         /\ IF MirrorReturns(outcome)
            THEN /\ returned' = Some(outcome)
                 /\ fpc' = "returned"
                 /\ UNCHANGED mirror_i
            ELSE /\ mirror_i' = nxt
                 /\ returned' = None
                 /\ fpc' = IF nxt <= Len(table) THEN "mirrors" ELSE "returned"
  /\ UNCHANGED <<fdomain, fopts, attempt, last_blocked>>
  /\ UNCHANGED exceptLadder

\* a Scraper that is idle apart from _get_with_retry calls
ScrapeIdle == ScrapeInit /\ novel = "generic" /\ user_id = NoUser

InitLadder == ScrapeIdle /\ AuxIdle

NextLadder ==
  \/ \E d \in FetchDomains, o \in FetchOptions : CallGetWithRetry(d, o)
  \/ \E r \in Outcomes : TryOriginal(r)
  \/ \E r \in Outcomes : TryMirror(r)

SpecLadder == InitLadder /\ [][NextLadder]_vars

(* ------------------- NovelCache: the directory tree ------------------- *)
\* novel URLs and users of the cache calls
CacheNovels == {"novel-a", "novel-b"}
\* novel_url=None of get_chapter and set_chapter
NoNovel == ""
CacheQueries == {"q"}
\* versions of a chapter's content
Contents == {"v1", "v2"}

\* NovelCache._url_hash: the md5 digest, written as a name that tells the
\* hashed values apart (collisions of md5 are left out)
_url_hash(url) == "md5(" \o ToString(url) \o ")"

JsonFile(name) == name \o ".json"

\* the whole chapters directory
ChaptersDir(novel_url) == <<"chapters">>

\* chapters_dir / novel_hash
NovelChaptersDir(novel_url) == <<"chapters", _url_hash(novel_url)>>

\* the file get_chapter and set_chapter address
ChapterFile(chapter_url, novel_url) ==
  IF novel_url /= NoNovel
  THEN NovelChaptersDir(novel_url) \o <<JsonFile(_url_hash(chapter_url))>>
  ELSE <<"chapters", JsonFile(_url_hash(chapter_url))>>

\* the file get_novel_info and set_novel_info address
NovelInfoFile(novel_url) == <<"novels", JsonFile(_url_hash(novel_url))>>

\* the file get_search_results and set_search_results address
SearchFile(query) == <<"search", JsonFile(_url_hash(query \o "_all"))>>

\* the file the three download-progress functions address
ProgressFile(user, novel_url) ==
  <<"progress", JsonFile(user \o "_" \o _url_hash(novel_url))>>

IsPrefix(d, q) == Len(d) <= Len(q) /\ SubSeq(q, 1, Len(d)) = d

\* the content of the file at path, or None
ReadFile(files, path) ==
  IF \E f \in files : f[1] = path
  THEN Some((CHOOSE f \in files : f[1] = path)[2])
  ELSE None

\* open(path, 'w') and json.dump
WriteFile(files, path, content) ==
  {f \in files : f[1] /= path} \cup {<<path, content>>}

\* shutil.rmtree(dir, ignore_errors=True)
rmtree(files, dir) == {f \in files : ~IsPrefix(dir, f[1])}

\* NovelCache.set_chapter
CacheSetChapter(chapter_url, content, novel_url) ==
  /\ cache_files' = WriteFile(cache_files, ChapterFile(chapter_url, novel_url),
                              content)
  /\ cache_call' = None
  /\ UNCHANGED exceptCache

\* NovelCache.set_novel_info
CacheSetNovelInfo(novel_url) ==
  /\ cache_files' = WriteFile(cache_files, NovelInfoFile(novel_url), "info")
  /\ cache_call' = None
  /\ UNCHANGED exceptCache

\* NovelCache.set_search_results
CacheSetSearchResults(query) ==
  /\ cache_files' = WriteFile(cache_files, SearchFile(query), "results")
  /\ cache_call' = None
  /\ UNCHANGED exceptCache

\* NovelCache.save_download_progress
CacheSaveProgress(user, novel_url) ==
  /\ cache_files' = WriteFile(cache_files, ProgressFile(user, novel_url),
                              "progress")
  /\ cache_call' = None
  /\ UNCHANGED exceptCache

\* NovelCache.clear_novel_chapters
CacheClearNovelChapters(novel_url) ==
  /\ cache_files' = rmtree(cache_files, NovelChaptersDir(novel_url))
  /\ cache_call' = Some(novel_url)
  /\ UNCHANGED exceptCache

InitCache == ScrapeIdle /\ AuxIdle

NextCache ==
  \/ \E u \in 1..MaxLinks, c \in Contents, n \in CacheNovels \cup {NoNovel} :
       CacheSetChapter(u, c, n)
  \/ \E n \in CacheNovels : CacheSetNovelInfo(n)
  \/ \E q \in CacheQueries : CacheSetSearchResults(q)
  \/ \E w \in Users, n \in CacheNovels : CacheSaveProgress(w, n)
  \/ \E n \in CacheNovels : CacheClearNovelChapters(n)

SpecCache == InitCache /\ [][NextCache]_vars

(* ----------------- NovelCache: download progress ----------------------- *)
\* Discord user ids, one a prefix of the other
ProgressUsers == {"1", "12"}
\* the status of a progress record
Statuses == {"in_progress", "partial", "failed", "completed"}

\* the name of ProgressFile inside the progress directory
ProgressName(user, novel_url) == ProgressFile(user, novel_url)[2]

\* every file of the directory
AllProgressFiles(dir, user) == DOMAIN dir

\* progress_dir.glob(f"{user_id}_*.json")
GlobUserFiles(dir, user) ==
  LET p == user \o "_"
      e == ".json"
  IN {f \in DOMAIN dir :
        /\ Len(p) + Len(e) <= Len(f)
        /\ SubSeq(f, 1, Len(p)) = p
        /\ SubSeq(f, Len(f) - Len(e) + 1, Len(f)) = e}

\* what save_download_progress writes: the caller's dict and the three
\* fields it adds; _updated_at, like st_mtime, is the time of the write,
\* which progress_mtime keeps as a position
StampedProgress(user, novel_url, status) ==
  [status |-> status, _user_id |-> user, _novel_url |-> novel_url]

\* data.get('status') in ['in_progress', 'failed', 'partial']
IsIncomplete(data) == data.status \in {"in_progress", "failed", "partial"}

\* user_files sorted by st_mtime, newest first, scanned from position k of
\* progress_mtime down: the first record that IsIncomplete
RECURSIVE FirstIncomplete(_, _, _, _)
FirstIncomplete(dir, mtime, user_files, k) ==
  IF k = 0 THEN None
  ELSE IF mtime[k] \in user_files /\ IsIncomplete(dir[mtime[k]])
       THEN Some(dir[mtime[k]])
       ELSE FirstIncomplete(dir, mtime, user_files, k - 1)

\* NovelCache.get_download_progress
GetDownloadProgress(dir, mtime, user, novel_url) ==
  IF novel_url /= NoNovel
  THEN IF ProgressName(user, novel_url) \in DOMAIN dir
       THEN Some(dir[ProgressName(user, novel_url)])
       ELSE None
  ELSE IF GlobUserFiles(dir, user) = {}
       THEN None
       ELSE FirstIncomplete(dir, mtime, GlobUserFiles(dir, user), Len(mtime))

\* the sequence without the names of gone
WithoutFiles(mtime, gone) == SelectSeq(mtime, LAMBDA f : f \notin gone)

\* cache_file.unlink() of each file of gone
Unlink(dir, gone) == [f \in DOMAIN dir \ gone |-> dir[f]]

\* NovelCache.save_download_progress
ProgressSave(user, novel_url, status) ==
  LET f == ProgressName(user, novel_url)
  IN /\ progress_dir' = [g \in DOMAIN progress_dir \cup {f} |->
                           IF g = f THEN StampedProgress(user, novel_url, status)
                           ELSE progress_dir[g]]
     /\ progress_mtime' = Append(WithoutFiles(progress_mtime, {f}), f)
     /\ progress_call' = Some([op |-> "save", user |-> user,
                               novel_url |-> novel_url, result |-> None])
     /\ UNCHANGED exceptProgress

\* a call of NovelCache.get_download_progress
ProgressGet(user, novel_url) ==
  /\ progress_call' =
       Some([op |-> "get", user |-> user, novel_url |-> novel_url,
             result |-> GetDownloadProgress(progress_dir, progress_mtime,
                                              user, novel_url)])
  /\ UNCHANGED <<progress_dir, progress_mtime>>
  /\ UNCHANGED exceptProgress

\* NovelCache.clear_download_progress
ProgressClear(user, novel_url) ==
  LET gone == IF novel_url /= NoNovel
              THEN {ProgressName(user, novel_url)} \cap DOMAIN progress_dir
              ELSE GlobUserFiles(progress_dir, user)
  IN /\ progress_dir' = Unlink(progress_dir, gone)
     /\ progress_mtime' = WithoutFiles(progress_mtime, gone)
     /\ progress_call' = Some([op |-> "clear", user |-> user,
                               novel_url |-> novel_url, result |-> None])
     /\ UNCHANGED exceptProgress

InitProgress == ScrapeIdle /\ AuxIdle

NextProgress ==
  \/ \E w \in ProgressUsers, n \in CacheNovels, s \in Statuses :
       ProgressSave(w, n, s)
  \/ \E w \in ProgressUsers, n \in CacheNovels \cup {NoNovel} :
       ProgressGet(w, n)
  \/ \E w \in ProgressUsers, n \in CacheNovels \cup {NoNovel} :
       ProgressClear(w, n)

SpecProgress == InitProgress /\ [][NextProgress]_vars

(* ------------- _track_bandwidth and check_site_health ----------------- *)
\* the threads of the chapter pool
PoolThreads == {"w1", "w2"}
\* hosts whose health is probed
Hosts == {"host-a", "host-b"}
\* sizes of tracked responses
Sizes == {1, 2}
\* datetime.utcnow().strftime("%Y-%m"), the same month during a run
current_month == Some("month")

\* _track_bandwidth(resp) is entered with a response of size s
TbEnter(t, s) ==
  /\ tb[t].pc = "out"
  /\ tracked.count < MaxResponses
  /\ tb' = [tb EXCEPT ![t] = [pc |-> "month", size |-> s, loaded |-> 0]]
  /\ tracked' = [count |-> tracked.count + 1, bytes |-> tracked.bytes + s]
  /\ UNCHANGED <<bandwidth_month, bandwidth_bytes, site_health_cache, hc>>
  /\ UNCHANGED exceptCounters

\* if self.bandwidth_month != current_month
TbTestMonth(t) ==
  /\ tb[t].pc = "month"
  /\ tb' = [tb EXCEPT ![t].pc = IF bandwidth_month /= current_month
                                THEN "set_month" ELSE "load"]
  /\ UNCHANGED <<bandwidth_month, bandwidth_bytes, tracked, site_health_cache,
                 hc>>
  /\ UNCHANGED exceptCounters

\* self.bandwidth_month = current_month
TbSetMonth(t) ==
  /\ tb[t].pc = "set_month"
  /\ bandwidth_month' = current_month
  /\ tb' = [tb EXCEPT ![t].pc = "zero"]
  /\ UNCHANGED <<bandwidth_bytes, tracked, site_health_cache, hc>>
  /\ UNCHANGED exceptCounters

\* self.bandwidth_bytes = 0
TbZero(t) ==
  /\ tb[t].pc = "zero"
  /\ bandwidth_bytes' = 0
  /\ tb' = [tb EXCEPT ![t].pc = "load"]
  /\ UNCHANGED <<bandwidth_month, tracked, site_health_cache, hc>>
  /\ UNCHANGED exceptCounters

\* self.bandwidth_bytes += size_bytes: the attribute is loaded
TbLoad(t) ==
  /\ tb[t].pc = "load"
  /\ tb' = [tb EXCEPT ![t].pc = "store", ![t].loaded = bandwidth_bytes]
  /\ UNCHANGED <<bandwidth_month, bandwidth_bytes, tracked, site_health_cache,
                 hc>>
  /\ UNCHANGED exceptCounters

\* self.bandwidth_bytes += size_bytes: the sum of the loaded value and the
\* size
StoreSum(loaded, current, size) == loaded + size

\* self.bandwidth_bytes += size_bytes: the sum is stored
TbStore(t) ==
  /\ tb[t].pc = "store"
  /\ bandwidth_bytes' = StoreSum(tb[t].loaded, bandwidth_bytes, tb[t].size)
  /\ tb' = [tb EXCEPT ![t] = [pc |-> "out", size |-> 0, loaded |-> 0]]
  /\ UNCHANGED <<bandwidth_month, tracked, site_health_cache, hc>>
  /\ UNCHANGED exceptCounters

\* check_site_health: no entry of the host is in the table (or it is older
\* than the TTL), the HEAD request is sent
HealthProbe(t, h) ==
  /\ hc[t] = None
  /\ hc' = [hc EXCEPT ![t] = Some(h)]
  /\ UNCHANGED <<bandwidth_month, bandwidth_bytes, tracked, tb,
                 site_health_cache>>
  /\ UNCHANGED exceptCounters

\* check_site_health: _site_health_cache[cache_key] = (time, is_healthy)
HealthStore(t, is_healthy) ==
  /\ IsSome(hc[t])
  /\ site_health_cache' =
       [site_health_cache EXCEPT ![Get(hc[t])] = Some(is_healthy)]
  /\ hc' = [hc EXCEPT ![t] = None]
  /\ UNCHANGED <<bandwidth_month, bandwidth_bytes, tracked, tb>>
  /\ UNCHANGED exceptCounters

InitCounters == ScrapeIdle /\ AuxIdle

NextCounters ==
  \/ \E t \in PoolThreads, s \in Sizes : TbEnter(t, s)
  \/ \E t \in PoolThreads : TbTestMonth(t)
  \/ \E t \in PoolThreads : TbSetMonth(t)
  \/ \E t \in PoolThreads : TbZero(t)
  \/ \E t \in PoolThreads : TbLoad(t)
  \/ \E t \in PoolThreads : TbStore(t)
  \/ \E t \in PoolThreads, h \in Hosts : HealthProbe(t, h)
  \/ \E t \in PoolThreads, b \in BOOLEAN : HealthStore(t, b)

SpecCounters == InitCounters /\ [][NextCounters]_vars

(* ------------------- the tiers above _get_with_retry ------------------- *)
\* the operations that fetch a page of the novel's site
TierOps == {"chapter", "metadata", "links"}
\* sites told apart by the tests on the URL
TierSites == {"generic", "novelbin", "ranobes"}

\* a Scraper that consults the proxy on every site
ProxyOnEverySite(op, site) == flaresolverr_enabled

\* 'ranobes' in url and self.flaresolverr_enabled: the operation starts with
\* _fetch_with_flaresolverr
ProxyFirst(op, site) == site = "ranobes" /\ flaresolverr_enabled

\* a Scraper that tests the site only
BrowserOnSite(op, site) == site \in {"novelbin", "ranobes"}

\* the test in front of the browser fallback: _download_chapter,
\* get_novel_metadata with _get_ranobes_metadata (which has no test), and
\* the chapter list of scrape() with _get_ranobes_chapter_links
BrowserFallback(op, site) ==
  CASE op = "chapter" -> use_playwright /\ site \in {"novelbin", "ranobes"}
    [] op = "metadata" -> IF site = "ranobes" THEN TRUE
                          ELSE use_playwright /\ site = "novelbin"
    [] op = "links" -> IF site = "ranobes" THEN use_playwright
                       ELSE use_playwright /\ site = "novelbin"

\* get_page_content(url, wait_for_js=True): the method has no such
\* parameter, the call raises TypeError before a page is opened
BrowserCallRaises(op, site) == op = "metadata" /\ site = "ranobes"

\* Scraper.__init__: the flag from the argument or USE_PLAYWRIGHT, the
\* proxy from FLARESOLVERR_URL
ScraperInit(playwright, proxy) ==
  /\ tpc = "new"
  /\ use_playwright' = playwright
  /\ flaresolverr_enabled' = proxy
  /\ tpc' = "idle"
  /\ UNCHANGED <<tier_op, tier_log, tier_ok, pw_touched>>
  /\ UNCHANGED exceptTiers

\* _download_chapter, get_novel_metadata or the chapter list of scrape() is
\* called for a URL of the site
TierCall(op, site) ==
  /\ tpc \in {"idle", "done"}
  /\ tier_op' = Some([op |-> op, site |-> site])
  /\ tier_log' = <<>>
  /\ tier_ok' = FALSE
  /\ tpc' = IF ProxyFirst(op, site) THEN "proxy" ELSE "http"
  /\ UNCHANGED <<use_playwright, flaresolverr_enabled, pw_touched>>
  /\ UNCHANGED exceptTiers

\* html_content = self._fetch_with_flaresolverr(url)
TierProxy(ok) ==
  /\ tpc = "proxy"
  /\ tier_log' = Append(tier_log, "flaresolverr")
  /\ tier_ok' = ok
  /\ tpc' = IF ok THEN "done" ELSE "http"
  /\ UNCHANGED <<use_playwright, flaresolverr_enabled, tier_op, pw_touched>>
  /\ UNCHANGED exceptTiers

\* resp = self._get_with_retry(url, ...): the plain attempt, the attempts
\* with bypass headers and the mirrors
TierHttp(ok) ==
  /\ tpc = "http"
  /\ tier_log' = Append(tier_log, "http")
  /\ tier_ok' = ok
  /\ tpc' = IF ok THEN "done" ELSE "fallback"
  /\ UNCHANGED <<use_playwright, flaresolverr_enabled, tier_op, pw_touched>>
  /\ UNCHANGED exceptTiers

\* the browser fallback, or the return without a page
TierFallback(ok) ==
  /\ tpc = "fallback"
  /\ LET op == Get(tier_op).op
         site == Get(tier_op).site
     IN IF BrowserFallback(op, site)
        THEN /\ pw_touched' = TRUE
             /\ IF BrowserCallRaises(op, site)
                THEN /\ tier_log' = tier_log
                     /\ tier_ok' = FALSE
                ELSE /\ tier_log' = Append(tier_log, "browser")
                     /\ tier_ok' = ok
        ELSE /\ pw_touched' = pw_touched
             /\ tier_log' = tier_log
             /\ tier_ok' = FALSE
  /\ tpc' = "done"
  /\ UNCHANGED <<use_playwright, flaresolverr_enabled, tier_op>>
  /\ UNCHANGED exceptTiers

InitTiers == ScrapeIdle /\ AuxIdle

NextTiers ==
  \/ \E p \in BOOLEAN, f \in BOOLEAN : ScraperInit(p, f)
  \/ \E op \in TierOps, s \in TierSites : TierCall(op, s)
  \/ \E ok \in BOOLEAN : TierProxy(ok)
  \/ \E ok \in BOOLEAN : TierHttp(ok)
  \/ \E ok \in BOOLEAN : TierFallback(ok)

SpecTiers == InitTiers /\ [][NextTiers]_vars

(* --------------- playwright_scraper: loop and browser ----------------- *)
\* get_pw_loop: _pw_loop is None or not _pw_loop.is_running()
NeedsLoopThread == pw_loop = None \/ ~loop_running[Get(pw_loop)]

Unstarted == {t \in LoopThreads : lpc[t] = "unstarted"}

\* get_pw_loop, the block under _pw_lock: start a _start_pw_loop thread
\* unless the loop is there and running
PwCheck(c) ==
  /\ callers[c].pc = "call"
  /\ IF NeedsLoopThread
     THEN /\ Unstarted /= {}
          /\ pw_ready' = FALSE
          /\ pw_error' = FALSE
          /\ lpc' = [lpc EXCEPT
                       ![CHOOSE t \in Unstarted : \A o \in Unstarted : t <= o]
                         = "started"]
     ELSE UNCHANGED <<pw_ready, pw_error, lpc>>
  /\ callers' = [callers EXCEPT ![c].pc = "wait"]
  /\ UNCHANGED <<pw_loop, scraper_instance, loop_running, pw_semaphore,
                 browser>>
  /\ UNCHANGED exceptPw

\* get_pw_loop: _pw_ready.wait() returns
PwWait(c) ==
  /\ callers[c].pc = "wait"
  /\ pw_ready
  /\ callers' = [callers EXCEPT ![c].pc = "woken"]
  /\ UNCHANGED <<pw_loop, pw_ready, pw_error, scraper_instance, lpc,
                 loop_running, pw_semaphore, browser>>
  /\ UNCHANGED exceptPw

\* get_pw_loop raises or returns _pw_loop; run_in_pw_loop then hands the
\* coroutine to that loop (asyncio.run_coroutine_threadsafe)
PwReturn(c) ==
  /\ callers[c].pc = "woken"
  /\ callers' =
       IF pw_error \/ pw_loop = None
       THEN [callers EXCEPT ![c].pc = "raised"]
       ELSE [callers EXCEPT
               ![c].loop = pw_loop,
               ![c].pc = IF callers[c].phase = 1 THEN "read_instance"
                         ELSE "submitted"]
  /\ UNCHANGED <<pw_loop, pw_ready, pw_error, scraper_instance, lpc,
                 loop_running, pw_semaphore, browser>>
  /\ UNCHANGED exceptPw

\* get_scraper_instance returns _scraper_instance, or raises if it is None;
\* the caller goes on to run_in_pw_loop(instance.get_page_content(url))
PwReadInstance(c) ==
  /\ callers[c].pc = "read_instance"
  /\ callers' =
       IF scraper_instance = None
       THEN [callers EXCEPT ![c].pc = "raised"]
       ELSE [callers EXCEPT ![c].inst = scraper_instance,
                            ![c].phase = 2,
                            ![c].pc = "call"]
  /\ UNCHANGED <<pw_loop, pw_ready, pw_error, scraper_instance, lpc,
                 loop_running, pw_semaphore, browser>>
  /\ UNCHANGED exceptPw

\* _start_pw_loop: _pw_loop = asyncio.new_event_loop()
LoopNew(t) ==
  /\ lpc[t] = "started"
  /\ pw_loop' = Some(t)
  /\ lpc' = [lpc EXCEPT ![t] = "loop_set"]
  /\ UNCHANGED <<pw_ready, pw_error, scraper_instance, loop_running, callers,
                 pw_semaphore, browser>>
  /\ UNCHANGED exceptPw

\* _start_pw_loop: _pw_loop.run_until_complete(init_scraper()) on the loop
\* the global names now; on a loop that another thread runs it raises, and
\* the handler sets _pw_error
LoopInit(t) ==
  /\ lpc[t] = "loop_set"
  /\ IF loop_running[Get(pw_loop)]
     THEN /\ pw_error' = TRUE
          /\ UNCHANGED scraper_instance
     ELSE /\ pw_error' = FALSE
          /\ scraper_instance' = Some(t)
  /\ lpc' = [lpc EXCEPT ![t] = "inited"]
  /\ UNCHANGED <<pw_loop, pw_ready, loop_running, callers, pw_semaphore,
                 browser>>
  /\ UNCHANGED exceptPw

\* _start_pw_loop: finally _pw_ready.set()
LoopReady(t) ==
  /\ lpc[t] = "inited"
  /\ pw_ready' = TRUE
  /\ lpc' = [lpc EXCEPT ![t] = "ready"]
  /\ UNCHANGED <<pw_loop, pw_error, scraper_instance, loop_running, callers,
                 pw_semaphore, browser>>
  /\ UNCHANGED exceptPw

\* _start_pw_loop: if _pw_loop and _pw_error is None: _pw_loop.run_forever();
\* the thread ends if the test fails or the loop is already running
LoopRunForever(t) ==
  /\ lpc[t] = "ready"
  /\ IF ~pw_error /\ ~loop_running[Get(pw_loop)]
     THEN /\ loop_running' = [loop_running EXCEPT ![Get(pw_loop)] = TRUE]
          /\ lpc' = [lpc EXCEPT ![t] = "running"]
     ELSE /\ UNCHANGED loop_running
          /\ lpc' = [lpc EXCEPT ![t] = "ended"]
  /\ UNCHANGED <<pw_loop, pw_ready, pw_error, scraper_instance, callers,
                 pw_semaphore, browser>>
  /\ UNCHANGED exceptPw

\* the loop a caller's coroutine was handed to is running
CoroutineRuns(c) == loop_running[Get(callers[c].loop)]

\* _ensure_browser: async with _pw_semaphore
CoAcquire(c) ==
  /\ callers[c].pc = "submitted"
  /\ CoroutineRuns(c)
  /\ pw_semaphore = None
  /\ pw_semaphore' = Some(c)
  /\ callers' = [callers EXCEPT ![c].pc = "ensuring"]
  /\ UNCHANGED <<pw_loop, pw_ready, pw_error, scraper_instance, lpc,
                 loop_running, browser>>
  /\ UNCHANGED exceptPw

\* _ensure_browser: launch the browser if there is none, return the context
\* and leave the with-blocks
CoEnsure(c) ==
  /\ callers[c].pc = "ensuring"
  /\ CoroutineRuns(c)
  /\ browser' = browser \cup {Get(callers[c].inst)}
  /\ pw_semaphore' = None
  /\ callers' = [callers EXCEPT ![c].pc = "context"]
  /\ UNCHANGED <<pw_loop, pw_ready, pw_error, scraper_instance, lpc,
                 loop_running>>
  /\ UNCHANGED exceptPw

\* get_page_content: context.new_page(), apply_stealth, page.goto(url)
CoNavigate(c) ==
  /\ callers[c].pc = "context"
  /\ CoroutineRuns(c)
  /\ callers' = [callers EXCEPT ![c].pc = "navigating"]
  /\ UNCHANGED <<pw_loop, pw_ready, pw_error, scraper_instance, lpc,
                 loop_running, pw_semaphore, browser>>
  /\ UNCHANGED exceptPw

\* get_page_content: the page is read and, finally, closed
CoClose(c) ==
  /\ callers[c].pc = "navigating"
  /\ CoroutineRuns(c)
  /\ callers' = [callers EXCEPT ![c].pc = "closed"]
  /\ UNCHANGED <<pw_loop, pw_ready, pw_error, scraper_instance, lpc,
                 loop_running, pw_semaphore, browser>>
  /\ UNCHANGED exceptPw

InitPw == ScrapeIdle /\ AuxIdle

NextPw ==
  \/ \E c \in Callers : PwCheck(c)
  \/ \E c \in Callers : PwWait(c)
  \/ \E c \in Callers : PwReturn(c)
  \/ \E c \in Callers : PwReadInstance(c)
  \/ \E t \in LoopThreads : LoopNew(t)
  \/ \E t \in LoopThreads : LoopInit(t)
  \/ \E t \in LoopThreads : LoopReady(t)
  \/ \E t \in LoopThreads : LoopRunForever(t)
  \/ \E c \in Callers : CoAcquire(c)
  \/ \E c \in Callers : CoEnsure(c)
  \/ \E c \in Callers : CoNavigate(c)
  \/ \E c \in Callers : CoClose(c)

SpecPw == InitPw /\ [][NextPw]_vars

(* ------------- PlaywrightScraper: the authenticated context ------------ *)
\* the authenticated fetches
AuthFetches == {"get_webnovel_page", "get_webnovel_chapter"}

\* self.browser is None or not self.browser.is_connected()
NoLiveBrowser == ps_browser = None \/ ~ps_connected

\* self.browser.new_context(...), the resource blocking applied the first
\* time only, the cookies of cookies.json added if it has any for WebNovel
NewWebnovelContext(b, has_cookies) ==
  [browser |-> b, blocking |-> ~webnovel_blocking_applied,
   cookies |-> has_cookies]

\* if self.webnovel_context is None: new_context(...), else the one kept
KeptOrNewContext(current, b, has_cookies) ==
  IF current = None THEN Some(NewWebnovelContext(b, has_cookies)) ELSE current

\* _ensure_browser: if not self._context_blocking_applied, the route is
\* registered on the context just made
RouteOnNewContext == ~context_blocking_applied

\* get_page_content and the other fetches that start with _ensure_browser:
\* the browser is launched anew if there is none or it is disconnected,
\* the page is fetched and closed
PsGetPageContent ==
  /\ auth_pc = "idle"
  /\ IF NoLiveBrowser
     THEN /\ launches < MaxLaunches
          /\ launches' = launches + 1
          /\ ps_browser' = Some(launches + 1)
          /\ ps_connected' = TRUE
          /\ ps_context' = Some(launches + 1)
          /\ context_route' = RouteOnNewContext
          /\ context_blocking_applied' = TRUE
     ELSE UNCHANGED <<launches, ps_browser, ps_connected, ps_context,
                      context_route, context_blocking_applied>>
  /\ UNCHANGED <<webnovel_context, contexts_created, auth_pc, auth_used,
                 webnovel_blocking_applied>>
  /\ UNCHANGED exceptAuth

\* get_webnovel_page or get_webnovel_chapter up to the return of
\* _ensure_webnovel_context. Holding _pw_semaphore and self._lock it awaits
\* _ensure_browser, which waits for the same semaphore, when there is no
\* live browser: the coroutine never goes on.
AuthEnsure(f, has_cookies) ==
  /\ auth_pc = "idle"
  /\ IF NoLiveBrowser
     THEN /\ auth_pc' = "stuck"
          /\ UNCHANGED <<webnovel_context, contexts_created, auth_used,
                         webnovel_blocking_applied>>
     ELSE /\ webnovel_context' =
               KeptOrNewContext(webnovel_context, Get(ps_browser), has_cookies)
          /\ contexts_created' =
               IF webnovel_context = None THEN contexts_created + 1
               ELSE contexts_created
          /\ webnovel_blocking_applied' = TRUE
          /\ auth_used' = webnovel_context'
          /\ auth_pc' = f
  /\ UNCHANGED <<ps_browser, ps_connected, ps_context, launches,
                 context_blocking_applied, context_route>>
  /\ UNCHANGED exceptAuth

\* the page of the authenticated fetch is loaded, read and closed
AuthFetchDone ==
  /\ auth_pc \in AuthFetches
  /\ auth_pc' = "idle"
  /\ auth_used' = None
  /\ UNCHANGED <<ps_browser, ps_connected, ps_context, webnovel_context,
                 contexts_created, launches, webnovel_blocking_applied,
                 context_blocking_applied, context_route>>
  /\ UNCHANGED exceptAuth

\* the browser process dies or is disconnected
BrowserDisconnects ==
  /\ ps_browser /= None
  /\ ps_connected
  /\ ps_connected' = FALSE
  /\ UNCHANGED <<ps_browser, ps_context, webnovel_context, contexts_created,
                 launches, auth_pc, auth_used, webnovel_blocking_applied,
                 context_blocking_applied, context_route>>
  /\ UNCHANGED exceptAuth

\* PlaywrightScraper.close
PsClose ==
  /\ auth_pc = "idle"
  /\ webnovel_context' = None
  /\ ps_context' = None
  /\ ps_browser' = None
  /\ ps_connected' = FALSE
  /\ contexts_created' = 0
  /\ context_route' = FALSE
  /\ UNCHANGED <<launches, auth_pc, auth_used, webnovel_blocking_applied,
                 context_blocking_applied>>
  /\ UNCHANGED exceptAuth

InitAuth == ScrapeIdle /\ AuxIdle

NextAuth ==
  \/ PsGetPageContent
  \/ \E f \in AuthFetches, c \in BOOLEAN : AuthEnsure(f, c)
  \/ AuthFetchDone
  \/ BrowserDisconnects
  \/ PsClose

SpecAuth == InitAuth /\ [][NextAuth]_vars


(* ------------------------- check_site_health -------------------------- *)
\* the site_url arguments: two URLs of one domain, a URL of another domain
SiteUrls == {"https://host-a/", "https://host-a/search", "https://host-b"}

\* what requests.head comes to: a response with a status code, or None for
\* an exception
ProbeOutcomes == {Some(c) : c \in {200, 399, 400, 503}} \cup {None}

\* seconds that pass between two calls, and while a probe is under way
ClockSteps == {299, 300}
ProbeTimes == {0, 1}

\* s.split('/'): the pieces of s between its slashes
RECURSIVE SplitSlash(_, _)
SplitSlash(s, piece) ==
  IF s = "" THEN <<piece>>
  ELSE IF SubSeq(s, 1, 1) = "/"
       THEN <<piece>> \o SplitSlash(SubSeq(s, 2, Len(s)), "")
       ELSE SplitSlash(SubSeq(s, 2, Len(s)), piece \o SubSeq(s, 1, 1))

\* site_url.split('/')[2] if '://' in site_url else site_url (the URLs here
\* all hold '://')
HealthCacheKey(site_url) == SplitSlash(site_url, "")[3]

\* an entry is used whatever its age
EntryPresent(entry, now) == entry /= <<>>

\* the cached entry is used: cache_key in _site_health_cache and
\* time.time() - cached_time < _site_health_cache_ttl
EntryFresh(entry, now) ==
  /\ entry /= <<>>
  /\ now - entry[1] < _site_health_cache_ttl

\* is_healthy = resp.status_code < 400; False in the except branch
IsHealthy(outcome) == IsSome(outcome) /\ Get(outcome) < 400

\* check_site_health(site_url), the HEAD request ending in outcome after d
\* seconds if it is sent at all
CheckSiteHealth(site_url, outcome, d) ==
  LET cache_key == HealthCacheKey(site_url)
      entry == _site_health_cache[cache_key]
  IN /\ time_now + d <= MaxClock
     /\ IF EntryFresh(entry, time_now)
        THEN /\ health_call' = [key |-> cache_key, before |-> entry,
                                at |-> time_now, probed |-> FALSE,
                                outcome |-> outcome, result |-> entry[2]]
             /\ UNCHANGED <<_site_health_cache, time_now>>
        ELSE /\ time_now' = time_now + d
             /\ _site_health_cache' =
                  [_site_health_cache EXCEPT
                     ![cache_key] = <<time_now + d, IsHealthy(outcome)>>]
             /\ health_call' = [key |-> cache_key, before |-> entry,
                                at |-> time_now, probed |-> TRUE,
                                outcome |-> outcome,
                                result |-> IsHealthy(outcome)]
     /\ UNCHANGED exceptHealth

\* time passes between two calls
ClockAdvances(d) ==
  /\ time_now + d <= MaxClock
  /\ time_now' = time_now + d
  /\ UNCHANGED <<_site_health_cache, health_call>>
  /\ UNCHANGED exceptHealth

InitHealth == ScrapeIdle /\ AuxIdle

NextHealth ==
  \/ \E u \in SiteUrls, o \in ProbeOutcomes, d \in ProbeTimes :
       CheckSiteHealth(u, o, d)
  \/ \E d \in ClockSteps : ClockAdvances(d)

SpecHealth == InitHealth /\ [][NextHealth]_vars


(* ------ _ensure_browser and _ensure_webnovel_context: the gate -------- *)
\* the coroutines scheduled on the Playwright loop
GateTasks == {"t1", "t2"}

\* the two functions that enter the gate
GateFunctions == {"_ensure_browser", "_ensure_webnovel_context"}

\* the innermost frame of a coroutine
Top(t) == frames[t][Len(frames[t])]

\* the stack with the pc of its innermost frame set
WithTopAt(stack, p) == [stack EXCEPT ![Len(stack)].pc = p]

\* a coroutine calls get_page_content (which awaits _ensure_browser) or an
\* authenticated fetch (which awaits _ensure_webnovel_context)
GateCall(t, f) ==
  /\ frames[t] = <<>>
  /\ frames' = [frames EXCEPT ![t] = <<[fn |-> f, pc |-> "semaphore"]>>]
  /\ UNCHANGED <<semaphore_value, lock_locked, gate_browser,
                 gate_webnovel_context>>
  /\ UNCHANGED exceptGate

\* async with _pw_semaphore: a permit is taken when there is one
AcquireSemaphore(t) ==
  /\ frames[t] /= <<>>
  /\ Top(t).pc = "semaphore"
  /\ semaphore_value > 0
  /\ semaphore_value' = semaphore_value - 1
  /\ frames' = [frames EXCEPT ![t] = WithTopAt(frames[t], "lock")]
  /\ UNCHANGED <<lock_locked, gate_browser, gate_webnovel_context>>
  /\ UNCHANGED exceptGate

\* async with self._lock: the lock is taken when it is free
AcquireLock(t) ==
  /\ frames[t] /= <<>>
  /\ Top(t).pc = "lock"
  /\ ~lock_locked
  /\ lock_locked' = TRUE
  /\ frames' = [frames EXCEPT ![t] = WithTopAt(frames[t], "inside")]
  /\ UNCHANGED <<semaphore_value, gate_browser, gate_webnovel_context>>
  /\ UNCHANGED exceptGate

\* self.browser is None or not self.browser.is_connected()
GateNoLiveBrowser == gate_browser /= "live"

\* _ensure_browser inside both blocks: launch the browser if there is no
\* live one
EnsureBrowserBody(t) ==
  /\ frames[t] /= <<>>
  /\ Top(t) = [fn |-> "_ensure_browser", pc |-> "inside"]
  /\ gate_browser' = "live"
  /\ frames' = [frames EXCEPT ![t] = WithTopAt(frames[t], "exit")]
  /\ UNCHANGED <<semaphore_value, lock_locked, gate_webnovel_context>>
  /\ UNCHANGED exceptGate

\* the stack of _ensure_webnovel_context after its browser test: with no live
\* browser it awaits self._ensure_browser(), still inside both blocks
TestThenEnsureBrowser(stack, no_live_browser) ==
  IF no_live_browser
  THEN Append(WithTopAt(stack, "context"),
              [fn |-> "_ensure_browser", pc |-> "semaphore"])
  ELSE WithTopAt(stack, "context")

\* _ensure_webnovel_context inside both blocks: the browser test
WebnovelTest(t) ==
  /\ frames[t] /= <<>>
  /\ Top(t) = [fn |-> "_ensure_webnovel_context", pc |-> "inside"]
  /\ frames' = [frames EXCEPT
                  ![t] = TestThenEnsureBrowser(frames[t], GateNoLiveBrowser)]
  /\ UNCHANGED <<semaphore_value, lock_locked, gate_browser,
                 gate_webnovel_context>>
  /\ UNCHANGED exceptGate

\* _ensure_webnovel_context: the context is made if there is none
WebnovelContext(t) ==
  /\ frames[t] /= <<>>
  /\ Top(t) = [fn |-> "_ensure_webnovel_context", pc |-> "context"]
  /\ gate_webnovel_context' = TRUE
  /\ frames' = [frames EXCEPT ![t] = WithTopAt(frames[t], "exit")]
  /\ UNCHANGED <<semaphore_value, lock_locked, gate_browser>>
  /\ UNCHANGED exceptGate

\* both blocks are left, the lock and the permit are given back, the
\* function returns to its caller
ExitBlocks(t) ==
  /\ frames[t] /= <<>>
  /\ Top(t).pc = "exit"
  /\ lock_locked' = FALSE
  /\ semaphore_value' = semaphore_value + 1
  /\ frames' = [frames EXCEPT ![t] = SubSeq(frames[t], 1, Len(frames[t]) - 1)]
  /\ UNCHANGED <<gate_browser, gate_webnovel_context>>
  /\ UNCHANGED exceptGate

\* the browser process dies or is disconnected
GateBrowserDisconnects ==
  /\ gate_browser = "live"
  /\ gate_browser' = "disconnected"
  /\ UNCHANGED <<semaphore_value, lock_locked, gate_webnovel_context, frames>>
  /\ UNCHANGED exceptGate

\* PlaywrightScraper.close when no coroutine is in the gate
GateClose ==
  /\ \A t \in GateTasks : frames[t] = <<>>
  /\ gate_browser' = "none"
  /\ gate_webnovel_context' = FALSE
  /\ UNCHANGED <<semaphore_value, lock_locked, frames>>
  /\ UNCHANGED exceptGate

\* one step of a coroutine that the event loop can run
GateStep(t) ==
  \/ AcquireSemaphore(t)
  \/ AcquireLock(t)
  \/ EnsureBrowserBody(t)
  \/ WebnovelTest(t)
  \/ WebnovelContext(t)
  \/ ExitBlocks(t)

InitGate == ScrapeIdle /\ AuxIdle

NextGate ==
  \/ \E t \in GateTasks, f \in GateFunctions : GateCall(t, f)
  \/ \E t \in GateTasks : AcquireSemaphore(t)
  \/ \E t \in GateTasks : AcquireLock(t)
  \/ \E t \in GateTasks : EnsureBrowserBody(t)
  \/ \E t \in GateTasks : WebnovelTest(t)
  \/ \E t \in GateTasks : WebnovelContext(t)
  \/ \E t \in GateTasks : ExitBlocks(t)
  \/ GateBrowserDisconnects
  \/ GateClose

SpecGate == InitGate /\ [][NextGate]_vars

\* the event loop runs every coroutine that can go on
SpecGateFair == SpecGate /\ \A t \in GateTasks : WF_vars(GateStep(t))


(* ------ NovelBot._scrape_with_progress on the shared Scraper ---------- *)
\* the users whose jobs may overlap
BotUsers == {"u1", "u2"}

\* the tiers with the smallest and the largest worker count
Tiers == {"normal", "sponsor"}

\* the job record of a user with no job
NoJob ==
  [pc |-> "idle", tier |-> "normal", left |-> 0, workers |-> 0,
   polled |-> {}, reported |-> {}, stopped_by |-> None]

\* self.scraper.parallel_workers for a tier
TierWorkers(tier) ==
  IF tier = "sponsor" THEN WORKERS_SPONSOR ELSE WORKERS_NORMAL

\* check_cancel of user u: self.user_states.get(u, {}).get('cancelled', False)
CheckCancel(states, u) == IsSome(states[u]) /\ Get(states[u]).cancelled

\* the user's state is made and _scrape_with_progress sets the worker count
\* and the two callbacks on self.scraper, then hands scrape() to the executor
BotSetsUp(u, tier) ==
  /\ bot_job[u].pc = "idle"
  /\ user_states' = [user_states EXCEPT
                       ![u] = Some([cancelled |-> FALSE, user_tier |-> tier])]
  /\ scraper_attrs' = [parallel_workers |-> TierWorkers(tier),
                       progress_callback |-> Some(u),
                       cancel_check |-> Some(u)]
  /\ bot_job' = [bot_job EXCEPT ![u] = [NoJob EXCEPT !.pc = "submitted",
                                                     !.tier = tier]]
  /\ UNCHANGED exceptShared

\* scrape() of a generic site up to the pool: progress_callback(0, total) is
\* called and chapter_workers = self.parallel_workers is read
ScrapeReachesPool(u) ==
  /\ bot_job[u].pc = "submitted"
  /\ bot_job' =
       [bot_job EXCEPT
          ![u].pc = "looping",
          ![u].left = MaxLinks,
          ![u].workers = scraper_attrs.parallel_workers,
          ![u].reported = {Get(scraper_attrs.progress_callback)}]
  /\ UNCHANGED <<scraper_attrs, user_states>>
  /\ UNCHANGED exceptShared

\* one iteration of the as_completed loop: self.cancel_check() is polled; if
\* it is true the job stops, otherwise the unit is booked and
\* self.progress_callback called
LoopIteration(u) ==
  /\ bot_job[u].pc = "looping"
  /\ bot_job[u].left > 0
  /\ LET polled == Get(scraper_attrs.cancel_check)
         told == Get(scraper_attrs.progress_callback)
     IN  bot_job' =
           IF CheckCancel(user_states, polled)
           THEN [bot_job EXCEPT
                   ![u].pc = "returned",
                   ![u].polled = bot_job[u].polled \cup {polled},
                   ![u].stopped_by = Some(polled)]
           ELSE [bot_job EXCEPT
                   ![u].left = bot_job[u].left - 1,
                   ![u].polled = bot_job[u].polled \cup {polled},
                   ![u].reported = bot_job[u].reported \cup {told}]
  /\ UNCHANGED <<scraper_attrs, user_states>>
  /\ UNCHANGED exceptShared

\* every unit is booked, scrape() returns
ScrapeReturns(u) ==
  /\ bot_job[u].pc = "looping"
  /\ bot_job[u].left = 0
  /\ bot_job' = [bot_job EXCEPT ![u].pc = "returned"]
  /\ UNCHANGED <<scraper_attrs, user_states>>
  /\ UNCHANGED exceptShared

\* on_message 'cancel' while the user's step is 'scraping_in_progress'
UserCancels(u) ==
  /\ bot_job[u].pc \in {"submitted", "looping"}
  /\ IsSome(user_states[u])
  /\ user_states' = [user_states EXCEPT
                       ![u] = Some([Get(user_states[u]) EXCEPT
                                      !.cancelled = TRUE])]
  /\ UNCHANGED <<scraper_attrs, bot_job>>
  /\ UNCHANGED exceptShared

\* the job is over: the user's state is deleted
BotCleansUp(u) ==
  /\ bot_job[u].pc = "returned"
  /\ user_states' = [user_states EXCEPT ![u] = None]
  /\ bot_job' = [bot_job EXCEPT ![u] = NoJob]
  /\ UNCHANGED scraper_attrs
  /\ UNCHANGED exceptShared

InitShared == ScrapeIdle /\ AuxIdle

NextShared ==
  \/ \E u \in BotUsers, tier \in Tiers : BotSetsUp(u, tier)
  \/ \E u \in BotUsers : ScrapeReachesPool(u)
  \/ \E u \in BotUsers : LoopIteration(u)
  \/ \E u \in BotUsers : ScrapeReturns(u)
  \/ \E u \in BotUsers : UserCancels(u)
  \/ \E u \in BotUsers : BotCleansUp(u)

SpecShared == InitShared /\ [][NextShared]_vars


(* -------------------- run_bot_with_supervisor ------------------------- *)
\* exit codes of the bot process
ExitCodes == {0, 1}

\* seconds the bot runs before it exits
RunTimes == {0, 55, 56}

\* the cooldown counted as passed when it is just reached
CooldownReached(last, current_time) ==
  /\ IsSome(last)
  /\ Get(last) /= 0
  /\ current_time - Get(last) >= COOLDOWN_PERIOD

\* last_restart_time and (current_time - last_restart_time) > COOLDOWN_PERIOD
CooldownPassed(last, current_time) ==
  /\ IsSome(last)
  /\ Get(last) /= 0
  /\ current_time - Get(last) > COOLDOWN_PERIOD

\* restart_count after a crash at current_time
CountAfterCrash(count, last, current_time) ==
  IF CooldownPassed(last, current_time) THEN 1 ELSE count + 1

\* subprocess.Popen starts the bot
SupervisorLaunch ==
  /\ supervisor_pc = "launch"
  /\ supervisor_pc' = "running"
  /\ UNCHANGED <<restart_count, last_restart_time, supervisor_now, crash_run,
                 supervisor_errors>>
  /\ UNCHANGED exceptSupervisor

\* the bot exits with exit_code after running for ran seconds: break on 0,
\* otherwise count the crash and give up or sleep and go round again
BotExits(exit_code, ran) ==
  /\ supervisor_pc = "running"
  /\ supervisor_now + ran + RESTART_DELAY <= MaxSupervisorClock
  /\ LET current_time == supervisor_now + ran
         count == CountAfterCrash(restart_count, last_restart_time,
                                  current_time)
     IN  IF exit_code = 0
         THEN /\ supervisor_pc' = "stopped"
              /\ supervisor_now' = current_time
              /\ UNCHANGED <<restart_count, last_restart_time, crash_run>>
         ELSE /\ restart_count' = count
              /\ last_restart_time' = Some(current_time)
              /\ crash_run' =
                   IF last_restart_time = None
                      \/ current_time - Get(last_restart_time) > COOLDOWN_PERIOD
                   THEN 1 ELSE crash_run + 1
              /\ IF count > MAX_RESTART_ATTEMPTS
                 THEN /\ supervisor_pc' = "gave_up"
                      /\ supervisor_now' = current_time
                 ELSE /\ supervisor_pc' = "launch"
                      /\ supervisor_now' = current_time + RESTART_DELAY
  /\ UNCHANGED supervisor_errors
  /\ UNCHANGED exceptSupervisor

\* except Exception: starting or reading the process raised
SupervisorError ==
  /\ supervisor_pc = "launch"
  /\ supervisor_now + RESTART_DELAY <= MaxSupervisorClock
  /\ restart_count' = restart_count + 1
  /\ supervisor_errors' = TRUE
  /\ IF restart_count + 1 > MAX_RESTART_ATTEMPTS
     THEN /\ supervisor_pc' = "gave_up"
          /\ supervisor_now' = supervisor_now
     ELSE /\ supervisor_pc' = "launch"
          /\ supervisor_now' = supervisor_now + RESTART_DELAY
  /\ UNCHANGED <<last_restart_time, crash_run>>
  /\ UNCHANGED exceptSupervisor

\* except KeyboardInterrupt: break
SupervisorInterrupted ==
  /\ supervisor_pc \in {"launch", "running"}
  /\ supervisor_pc' = "stopped"
  /\ UNCHANGED <<restart_count, last_restart_time, supervisor_now, crash_run,
                 supervisor_errors>>
  /\ UNCHANGED exceptSupervisor

InitSupervisor == ScrapeIdle /\ AuxIdle

NextSupervisor ==
  \/ SupervisorLaunch
  \/ \E c \in ExitCodes, ran \in RunTimes : BotExits(c, ran)
  \/ SupervisorError
  \/ SupervisorInterrupted

SpecSupervisor == InitSupervisor /\ [][NextSupervisor]_vars

(* ------ fetch_webnovel_chapters_parallel.fetch_one: the wait loop ----- *)
\* for wait_attempt in range(6)
PollBudget == 6

\* What a page can show: the challenge page (title 'Just a moment...', html
\* with 'challenge-platform'), a Cloudflare page without those html markers
\* (title 'Attention Required! | Cloudflare'), a page with an ordinary title
\* whose html holds 'cf-challenge', and the chapter.
PageStates == {"challenge", "cf_page", "embedded", "content"}

\* page.title()
TitleOf(state) ==
  IF state = "challenge" THEN "Just a moment..."
  ELSE IF state = "cf_page" THEN "Attention Required! | Cloudflare"
  ELSE "Chapter 1"

\* 'Just a moment' in title or 'Cloudflare' in title
TitleHasMarker(t) ==
  t \in {"Just a moment...", "Attention Required! | Cloudflare"}

\* 'challenge-platform' in html or 'cf-challenge' in html
HtmlHasMarker(h) == h \in {"challenge", "embedded"}

\* fetch_one returning the html without looking at it
FetchOneResultUnchecked(t, h) == "html"

\* fetch_one: what is returned for the title and html read at the end
FetchOneResult(t, h) ==
  IF TitleHasMarker(t) THEN "CLOUDFLARE_BLOCKED"
  ELSE IF HtmlHasMarker(h) THEN "CLOUDFLARE_BLOCKED"
  ELSE "html"

\* fetch_one: page = await context.new_page()
WnStart ==
  /\ wn_pc \in {"idle", "returned"}
  /\ wn_pc' = "opened"
  /\ page_open' = TRUE
  /\ page_state' = "blank"
  /\ wait_attempt' = 0
  /\ polls' = 0
  /\ wn_title' = None
  /\ wn_html' = None
  /\ marker_at_exhaustion' = FALSE
  /\ fetch_result' = None
  /\ UNCHANGED exceptChallenge

\* fetch_one: page.goto(url) arrives at a page, or raises: the handler
\* returns None and the finally clause closes the page
WnGoto(arrive) ==
  /\ wn_pc = "opened"
  /\ IF arrive = "error"
     THEN /\ wn_pc' = "returned"
          /\ fetch_result' = Some("None")
          /\ page_open' = FALSE
          /\ UNCHANGED page_state
     ELSE /\ wn_pc' = "polling"
          /\ page_state' = arrive
          /\ UNCHANGED <<fetch_result, page_open>>
  /\ UNCHANGED <<wait_attempt, polls, wn_title, wn_html, marker_at_exhaustion>>
  /\ UNCHANGED exceptChallenge

\* the wait loop reads the title and breaks if it shows no marker
WnPollTitle ==
  /\ wn_pc = "polling"
  /\ polls' = polls + 1
  /\ wn_title' = Some(TitleOf(page_state))
  /\ wn_pc' = IF TitleHasMarker(TitleOf(page_state)) THEN "sleeping"
              ELSE "settled"
  /\ UNCHANGED <<wait_attempt, page_state, page_open, wn_html,
                 marker_at_exhaustion, fetch_result>>
  /\ UNCHANGED exceptChallenge

\* the wait loop: asyncio.sleep(5), then the next round or the end of range(6)
WnSleep ==
  /\ wn_pc = "sleeping"
  /\ wait_attempt' = wait_attempt + 1
  /\ IF wait_attempt + 1 < PollBudget
     THEN /\ wn_pc' = "polling"
          /\ UNCHANGED marker_at_exhaustion
     ELSE /\ wn_pc' = "settled"
          /\ marker_at_exhaustion' = TitleHasMarker(TitleOf(page_state))
  /\ UNCHANGED <<polls, page_state, page_open, wn_title, wn_html, fetch_result>>
  /\ UNCHANGED exceptChallenge

\* after the waits and the scrolling: html = await page.content(), or a
\* browser call raises
WnReadContent(ok) ==
  /\ wn_pc = "settled"
  /\ IF ok
     THEN /\ wn_html' = Some(page_state)
          /\ wn_pc' = "read"
          /\ UNCHANGED <<fetch_result, page_open>>
     ELSE /\ wn_pc' = "returned"
          /\ fetch_result' = Some("None")
          /\ page_open' = FALSE
          /\ UNCHANGED wn_html
  /\ UNCHANGED <<wait_attempt, polls, page_state, wn_title,
                 marker_at_exhaustion>>
  /\ UNCHANGED exceptChallenge

\* title = await page.title(), the two Cloudflare tests, the return and the
\* finally clause
WnReturn ==
  /\ wn_pc = "read"
  /\ wn_title' = Some(TitleOf(page_state))
  /\ fetch_result' = Some(FetchOneResult(TitleOf(page_state), Get(wn_html)))
  /\ page_open' = FALSE
  /\ wn_pc' = "returned"
  /\ UNCHANGED <<wait_attempt, polls, page_state, wn_html,
                 marker_at_exhaustion>>
  /\ UNCHANGED exceptChallenge

\* the challenge script of the open page finishes and the page moves on
PageSettles(to) ==
  /\ page_open
  /\ page_state = "challenge"
  /\ to \in PageStates \ {"challenge"}
  /\ page_state' = to
  /\ UNCHANGED <<wn_pc, wait_attempt, polls, page_open, wn_title, wn_html,
                 marker_at_exhaustion, fetch_result>>
  /\ UNCHANGED exceptChallenge

InitChallenge == ScrapeIdle /\ AuxIdle

NextChallenge ==
  \/ WnStart
  \/ \E a \in PageStates \cup {"error"} : WnGoto(a)
  \/ WnPollTitle
  \/ WnSleep
  \/ \E ok \in BOOLEAN : WnReadContent(ok)
  \/ WnReturn
  \/ \E to \in PageStates : PageSettles(to)

SpecChallenge == InitChallenge /\ [][NextChallenge]_vars

(* ------------- a job whose second link is blocked once ---------------- *)
\* the job's listing: one link more than the jobs of Spec have
E2EListing == [i \in 1..(MaxLinks + 1) |-> i]

\* the chapter text of a page fetched at the given attempt (1-based), and
\* the text of a block page
AttemptBody(k) == [len |-> MinBodyLen + k, marker |-> "none"]
BlockBody == [len |-> MinBodyLen - 1, marker |-> "none"]

\* What successive requests for chapter u get: link 2 a block page, then
\* its chapter; every other link its chapter at once.
ScenarioOutcomes(u) ==
  IF u = 2
  THEN << [kind |-> "response", status |-> 200, page |-> "just a moment",
           body |-> BlockBody],
          [kind |-> "response", status |-> 200, page |-> "content",
           body |-> AttemptBody(2)] >>
  ELSE << [kind |-> "response", status |-> 200, page |-> "content",
           body |-> AttemptBody(1)] >>

RECURSIVE GetWithRetryFrom(_, _)
\* _get_with_retry on a host without mirrors, from attempt k (0-based) on:
\* the first response the retry loop returns, with the headers it was asked
\* with, or None
GetWithRetryFrom(outcomes, k) ==
  IF k >= max_retries \/ k >= Len(outcomes) THEN None
  ELSE IF AttemptReturns(outcomes[k + 1])
       THEN Some([resp |-> outcomes[k + 1], headers |-> AttemptHeaders(k)])
       ELSE GetWithRetryFrom(outcomes, k + 1)

\* _download_chapter past its cache lookup: _get_with_retry, then the
\* parsing and caching of the page it returned
DownloadThroughLadder(i) ==
  /\ i \in DOMAIN futures
  /\ futures[i].state = "fetching"
  /\ LET r == GetWithRetryFrom(ScenarioOutcomes(futures[i].url), 0)
     IN  IF IsSome(r) THEN FetchChapter(i, "Chapter", Get(r).resp.body)
         ELSE FetchFails(i)

InitE2E == ScrapeIdle /\ AuxIdle

NextE2E ==
  \/ GetNovelMetadata(TRUE)
  \/ \E w \in WorkerChoices : StartJob(<<1, 0>>, w, E2EListing)
  \/ \E i \in 1..(MaxLinks + 1) : StartDownload(i)
  \/ \E i \in 1..(MaxLinks + 1) : ReturnCached(i)
  \/ \E i \in 1..(MaxLinks + 1) : DownloadThroughLadder(i)
  \/ \E i \in 1..(MaxLinks + 1) : Collect(i)
  \/ Finish

SpecE2E == InitE2E /\ [][NextE2E]_vars

(* ------------------------------ claims -------------------------------- *)
\* the chapter cache holds a valid body for chapter u of novel n
ValidCached(cache, n, u) ==
  /\ IsSome(cache[n][u])
  /\ Get(cache[n][u]).body.len > MinBodyLen
  /\ Get(cache[n][u]).body.marker = "none"

\* C1 (idempotent caching): once the cache holds a valid body for a chapter
\* URL of the novel it stays there; a download of that URL started later
\* never goes to the network but takes the cached record, and returns it.
C1_IdempotentCaching ==
  [][ /\ \A u \in URLs :
           ValidCached(chapterCache, novel, u) => ValidCached(chapterCache', novel, u)
      /\ \A i \in DOMAIN futures \cap DOMAIN futures' :
           /\ ( /\ futures[i].state = "pending"
                /\ futures'[i].state \in {"hit", "fetching"}
                /\ ValidCached(chapterCache, novel, futures[i].url) )
              => /\ futures'[i].state = "hit"
                 /\ futures'[i].result = chapterCache[novel][futures[i].url]
           /\ (futures[i].state = "hit" /\ futures'[i].state = "done")
              => futures'[i].result = futures[i].result
    ]_vars

\* a later job's download unit has found its chapter in the cache
C1_Witness ==
  \E i \in DOMAIN futures :
    /\ futures[i].state = "hit"
    /\ ValidCached(chapterCache, novel, futures[i].url)
    /\ futures[i].result = chapterCache[novel][futures[i].url]

UrlsOf(chs) == [i \in DOMAIN chs |-> chs[i].url]
NoRepeat(s) == \A i, j \in DOMAIN s : s[i] = s[j] => i = j
\* the target links of the running job
JobTargets ==
  TargetLinks(chapter_links, novel, job.chapter_start, job.chapter_end)

\* C3 (resume correctness): a job that resumes with a set S of its targets
\* in the cache dispatches downloads for exactly the targets outside S, and,
\* when none of them fails, returns every target once, in target order.
C3_ResumeCorrectness ==
  [][ /\ ( /\ pc /= "downloading" /\ pc' = "downloading"
           /\ IsSome(resume_info') /\ NoRepeat(chapter_links') )
         => /\ NoRepeat(UrlsOf(futures'))
            /\ Range(UrlsOf(futures')) =
                 Range(JobTargets') \ Range(completed_urls')
      /\ ( /\ pc = "downloading" /\ pc' = "done"
           /\ IsSome(resume_info) /\ NoRepeat(chapter_links)
           /\ failed_urls = <<>> )
         => UrlsOf(Get(result').chapters) = JobTargets
    ]_vars

\* C4 (ordering invariant): whatever the order in which the pool completed
\* the dispatched downloads, the job returns the same chapter list.
C4_OrderingInvariant ==
  [][ (pc = "downloading" /\ pc' = "done")
      => LET booked == Cardinality({i \in yielded : IsSome(futures[i].result)})
             npre == Len(chapters) - booked
         IN  \A f \in Permutations(DOMAIN chapters) :
               (\A k \in 1..npre : f[k] = k)
               => FinalChapters([k \in DOMAIN chapters |-> chapters[f[k]]])
                    = Get(result').chapters
    ]_vars

\* C5 (deduplication): no chapter URL is dispatched by two units of a job,
\* and no URL appears twice in the chapters a job returns.
C5_Deduplication ==
  /\ NoRepeat(UrlsOf(futures))
  /\ (pc = "done" /\ IsSome(result)) => NoRepeat(UrlsOf(Get(result).chapters))

\* C6 (cancellation persists): when a cancelled job of a user returns, the
\* progress store holds a 'partial' record for that user and novel.
C6_CancellationPersists ==
  (pc = "done" /\ cancelled /\ HasUser)
  => /\ IsSome(progress[user_id][novel])
     /\ Get(progress[user_id][novel]).status = "partial"

\* C7 (cooperative cancellation), as stated: from the poll that observes the
\* cancellation on, no queued download is started.
C7_NoStartAfterObserved ==
  [][ (cancelled /\ pc \in {"cancelling", "joining"})
      => \A i \in DOMAIN futures \cap DOMAIN futures' :
           futures[i].state = "pending"
           => futures'[i].state \in {"pending", "cancelled"}
    ]_vars

\* C7 (cooperative cancellation), amended: once the cancel branch has shut
\* the pool down no unit is left queued and no further download starts; the
\* downloads still to complete are the ones in flight at the shutdown, at
\* most the worker count.
C7_CooperativeCancellation ==
  [][ /\ pc' = "joining"
         => /\ Pending' = {}
            /\ Cardinality(Running') <= chapter_workers'
      /\ pc = "joining"
         => /\ Running' \subseteq Running
            /\ \A i \in DOMAIN futures \cap DOMAIN futures' :
                 futures[i].state = "cancelled" => futures'[i] = futures[i]
    ]_vars

\* the cancellation is seen while one download runs and another is queued
C7_Witness ==
  /\ pc = "joining"
  /\ Running /= {}
  /\ \E i \in DOMAIN futures : futures[i].state = "cancelled"

\* C8 (end-of-job progress rule): when a job of a user has run every unit and
\* returns, the user's record for the novel is deleted iff no chapter failed;
\* otherwise it is 'partial' and lists the completed and the failed URLs.
C8_EndOfJobProgress ==
  [][ (pc = "downloading" /\ pc' = "done" /\ HasUser)
      => /\ progress'[user_id][novel] = None <=> failed_urls = <<>>
         /\ failed_urls /= <<>>
            => progress'[user_id][novel] =
                 Some([status |-> "partial",
                       completed_chapters |-> completed_urls,
                       failed_chapters |-> failed_urls])
    ]_vars

\* a job that ran to its end with a failed chapter has returned
C8_Witness ==
  /\ pc = "done" /\ HasUser /\ ~cancelled
  /\ IsSome(result) /\ Get(result).failed_chapters > 0
  /\ Get(result).chapters /= <<>>
  /\ IsSome(progress[user_id][novel])

\* C9 (bounded concurrency): never more downloads run than parallel_workers.
C9_BoundedConcurrency == Cardinality(Running) <= parallel_workers

\* every worker is busy and a unit waits for one
C9_Witness ==
  /\ ~IsRanobes(novel)
  /\ Cardinality(Running) = parallel_workers
  /\ Pending /= {}

\* C10 (Ranobes serialization): at most one download of a Ranobes job runs
\* at any instant, whatever the worker count.
C10_RanobesSerialization == IsRanobes(novel) => Cardinality(Running) <= 1

\* a Ranobes job of the top tier: one download runs, another one waits
C10_Witness ==
  /\ IsRanobes(novel)
  /\ parallel_workers = WORKERS_SPONSOR
  /\ Cardinality(Running) = 1
  /\ Pending /= {}

\* a response is blocked: status 403, 503 or 429, or a 200 page that starts
\* with a challenge or bot-block text
ClassifiedBlocked(resp) ==
  \/ resp.status \in {403, 503, 429}
  \/ /\ resp.status = 200
     /\ resp.page \in {"checking your browser", "just a moment",
                       "abnormal activity"}

\* C11 (blocked is never content): _get_with_retry never returns a blocked
\* response, from the original domain or from a mirror.
C11_BlockedNeverReturned ==
  IsSome(returned) => ~ClassifiedBlocked(Get(returned))

\* the mirrors of the requested host that the mirror loop does not skip
RECURSIVE AlternateMirrors(_, _)
AlternateMirrors(table, domain) ==
  IF table = <<>> THEN <<>>
  ELSE (IF Head(table) = domain THEN <<>> ELSE <<Head(table)>>)
         \o AlternateMirrors(Tail(table), domain)

TitleCarries(c, n) == TitleNumber(c.title) \in {None, Some(n)}

\* C14 (mismatch guard): on NovelBuddy a fetched page whose heading number
\* differs from the expected chapter number yields no chapter: no unit
\* returns such a chapter, none is cached or collected or handed back by the
\* job, and a unit on which the guard fired is booked as failed once the
\* loop of a job that was not cancelled has collected it.
C14_MismatchGuard ==
  IsNovelBuddy(novel) =>
    /\ \A i \in DOMAIN futures :
         /\ IsSome(futures[i].result)
            => TitleCarries(Get(futures[i].result), futures[i].num)
         /\ futures[i].mismatch => futures[i].result = None
         /\ (futures[i].mismatch /\ i \in yielded /\ pc = "downloading")
            => /\ futures[i].url \in Range(failed_urls)
               /\ futures[i].url \notin Range(completed_urls)
               /\ \A k \in DOMAIN chapters : chapters[k].url /= futures[i].url
    /\ \A u \in URLs :
         IsSome(chapterCache[novel][u])
         => TitleCarries(Get(chapterCache[novel][u]),
                         Get(chapterCache[novel][u]).chapter_num)
    /\ \A k \in DOMAIN chapters : TitleCarries(chapters[k], chapters[k].chapter_num)
    /\ (IsSome(result) /\ ~Get(result).error)
       => \A k \in DOMAIN Get(result).chapters :
            TitleCarries(Get(result).chapters[k],
                         _extract_chapter_number(Get(result).chapters[k].url))

\* the guard fired on a unit whose body was long enough to be cached, the
\* loop has collected the unit, and nothing is cached for its URL
C14_Witness ==
  /\ IsNovelBuddy(novel)
  /\ pc = "downloading"
  /\ \E i \in yielded :
       /\ futures[i].mismatch
       /\ futures[i].url \in Range(failed_urls)
       /\ chapterCache[novel][futures[i].url] = None

\* a chapter body that is neither empty nor short nor the rate-limit
\* placeholder
BodyHasContent(body) == body.len > MinBodyLen /\ body.marker /= "rate"

\* C15 (content-shape failure): a fetched chapter whose body is empty, at
\* most MinBodyLen characters long or the rate-limit placeholder is a failed
\* unit: it is not among the collected chapters or the completed URLs, it is
\* booked in failed_urls, it is not in the job's result and it is never
\* cached.
C15_ContentShapeFailure ==
  /\ \A k \in DOMAIN chapters : BodyHasContent(chapters[k].body)
  /\ \A i \in DOMAIN futures :
       ( /\ i \in yielded
         /\ pc = "downloading"
         /\ IsSome(futures[i].result)
         /\ ~BodyHasContent(Get(futures[i].result).body) )
       => /\ futures[i].url \in Range(failed_urls)
          /\ futures[i].url \notin Range(completed_urls)
  /\ (IsSome(result) /\ ~Get(result).error)
     => \A k \in DOMAIN Get(result).chapters :
          BodyHasContent(Get(result).chapters[k].body)
  /\ \A n \in Novels, u \in URLs :
       IsSome(chapterCache[n][u]) => BodyHasContent(Get(chapterCache[n][u]).body)

\* C16 (per-unit failure isolation): a job that was not cancelled returns
\* only after every unit has run and been collected, whatever subset of them
\* failed; it returns a chapter list, not an error; the list holds the
\* chapter of every unit that succeeded, and failed_chapters is the number of
\* units that failed.
C16_FailureIsolation ==
  [][ (pc = "downloading" /\ pc' = "done")
      => /\ yielded = DOMAIN futures
         /\ \A i \in DOMAIN futures : futures[i].state = "done"
         /\ IsSome(result')
         /\ ~Get(result').error
         /\ Get(result').failed_chapters =
              Cardinality({i \in DOMAIN futures : futures[i].result = None})
         /\ \A i \in DOMAIN futures :
              IsSome(futures[i].result)
              => \E k \in DOMAIN Get(result').chapters :
                   Get(result').chapters[k].url = futures[i].url ]_vars

\* a job returned one chapter and counted one failed unit
C16_Witness ==
  /\ pc = "done"
  /\ IsSome(result)
  /\ ~Get(result).error
  /\ Get(result).failed_chapters = 1
  /\ Len(Get(result).chapters) = 1

\* C17 (job abort conditions), its metadata case: when get_novel_metadata
\* reports that the page could not be fetched, scrape() returns an error
\* there and then, with no chapter list fetched and no unit dispatched.
C17_AbortOnMetadataFailure ==
  [][ ( /\ pc = "metadata"
        /\ Get(metadata_result).error )
      => /\ pc' = "done"
         /\ IsSome(result') /\ Get(result').error
         /\ chapter_links' = <<>>
         /\ futures' = <<>> ]_vars

\* C18 (cache isolation): clear_novel_chapters(N) leaves no chapter cached
\* under N and leaves unchanged every chapter cached under another novel
\* (the same chapter URL included) or under no novel, every search entry,
\* every metadata entry and every progress entry.
C18_CacheIsolation ==
  [][ \A n \in CacheNovels :
        CacheClearNovelChapters(n)
        => /\ \A u \in URLs : ReadFile(cache_files', ChapterFile(u, n)) = None
           /\ \A u \in URLs, m \in (CacheNovels \cup {NoNovel}) \ {n} :
                ReadFile(cache_files', ChapterFile(u, m))
                  = ReadFile(cache_files, ChapterFile(u, m))
           /\ \A q \in CacheQueries :
                ReadFile(cache_files', SearchFile(q))
                  = ReadFile(cache_files, SearchFile(q))
           /\ \A m \in CacheNovels :
                /\ ReadFile(cache_files', NovelInfoFile(m))
                     = ReadFile(cache_files, NovelInfoFile(m))
                /\ \A w \in Users :
                     ReadFile(cache_files', ProgressFile(w, m))
                       = ReadFile(cache_files, ProgressFile(w, m)) ]_vars

\* novel-a was cleared while the same chapter URL was cached under novel-b,
\* and a search, a metadata and a progress entry of novel-a were on disk
C18_Witness ==
  /\ cache_call = Some("novel-a")
  /\ \A u \in URLs : ReadFile(cache_files, ChapterFile(u, "novel-a")) = None
  /\ ReadFile(cache_files, ChapterFile(1, "novel-b")) = Some("v2")
  /\ IsSome(ReadFile(cache_files, ChapterFile(1, NoNovel)))
  /\ IsSome(ReadFile(cache_files, SearchFile("q")))
  /\ IsSome(ReadFile(cache_files, NovelInfoFile("novel-a")))
  /\ IsSome(ReadFile(cache_files, ProgressFile("u1", "novel-a")))

\* C19 (single lazily-started browser): however the threads that call
\* get_pw_loop and get_scraper_instance interleave, at most one event-loop
\* thread is started and one PlaywrightScraper instance made, and every
\* caller obtains the same instance.
C19_SingleBrowser ==
  /\ Cardinality({t \in LoopThreads : lpc[t] /= "unstarted"}) <= 1
  /\ \A c \in Callers, d \in Callers :
       (IsSome(callers[c].inst) /\ IsSome(callers[d].inst))
       => callers[c].inst = callers[d].inst

\* C20 (global browser cap of 1): at most one get_page_content call is
\* between its navigation and the closing of its page at any moment.
C20_BrowserCap ==
  Cardinality({c \in Callers : callers[c].pc = "navigating"}) <= 1

\* C21 (challenge wait loop), as stated: if the marker is still shown when
\* the six polls are used up, the fetch returns the blocked marker.
C21_BlockedAtExhaustion ==
  (wn_pc = "returned" /\ marker_at_exhaustion)
  => fetch_result = Some("CLOUDFLARE_BLOCKED")

\* C21 (challenge wait loop), amended: the wait loop reads the title at most
\* PollBudget times and not again after a read without the marker; the html
\* is returned only if the title read last shows no marker and the html
\* holds no challenge marker, and if the title read last shows the marker
\* the result is the blocked marker; the page is closed whenever fetch_one
\* has returned.
C21_ChallengeWaitLoop ==
  [][ /\ polls' <= PollBudget
      /\ (polls' = polls + 1 /\ polls > 0) => TitleHasMarker(Get(wn_title))
      /\ wn_pc' = "returned"
         => /\ ~page_open'
            /\ IsSome(fetch_result')
            /\ fetch_result' = Some("html")
               => /\ ~TitleHasMarker(Get(wn_title'))
                  /\ ~HtmlHasMarker(Get(wn_html'))
            /\ (wn_pc = "read" /\ TitleHasMarker(Get(wn_title')))
               => fetch_result' = Some("CLOUDFLARE_BLOCKED") ]_vars

\* the six polls all saw the marker, it was still shown at the final read,
\* and the fetch returned the blocked marker with the page closed
C21_Witness ==
  /\ wn_pc = "returned"
  /\ polls = PollBudget
  /\ marker_at_exhaustion
  /\ IsSome(wn_html)
  /\ TitleHasMarker(Get(wn_title))
  /\ fetch_result = Some("CLOUDFLARE_BLOCKED")
  /\ ~page_open

\* C22 (end-to-end block-then-bypass): a job over links 1, 2, 3, ... whose
\* link 2 gets a block page on the first attempt and its chapter on the
\* bypass-header attempt returns every chapter in link order with no failed
\* unit, and the cache entry of link 2 holds the body of the second attempt.
C22_BlockThenBypass ==
  (pc = "done" /\ IsSome(result))
  => /\ ~Get(result).error
     /\ UrlsOf(Get(result).chapters) = E2EListing
     /\ \A k \in DOMAIN Get(result).chapters :
          Get(result).chapters[k].chapter_num = k
     /\ Get(result).failed_chapters = 0
     /\ Get(result).chapters[2].body = AttemptBody(2)
     /\ IsSome(chapterCache[novel][2])
     /\ Get(chapterCache[novel][2]).body = AttemptBody(2)
     /\ GetWithRetryFrom(ScenarioOutcomes(2), 0)
          = Some([resp |-> ScenarioOutcomes(2)[2], headers |-> "bypass"])

\* the job has returned its chapters
C22_Witness ==
  /\ pc = "done"
  /\ IsSome(result)
  /\ Len(Get(result).chapters) = MaxLinks + 1
  /\ IsSome(chapterCache[novel][2])

\* C23: get_download_progress(user, novel) is the record last saved for the
\* pair, or nothing if none was saved or it was cleared since; without a
\* novel it is the most recently written record of that user whose status
\* is in_progress, failed or partial, and nothing if the user has none
RecordsOf(dir, user) ==
  {f \in DOMAIN dir : dir[f]._user_id = user}

WrittenAt(mtime, f) == CHOOSE k \in 1..Len(mtime) : mtime[k] = f

LookupWithoutNovel(dir, mtime) ==
  \A w \in ProgressUsers :
    LET r == GetDownloadProgress(dir, mtime, w, NoNovel)
        open == {f \in RecordsOf(dir, w) :
                   dir[f].status \in {"in_progress", "failed", "partial"}}
    IN IF open = {}
       THEN r = None
       ELSE \E f \in open :
              /\ r = Some(dir[f])
              /\ \A g \in open : WrittenAt(mtime, g) <= WrittenAt(mtime, f)

LookupWithNovel ==
  \A w \in ProgressUsers, n \in CacheNovels :
    LET call == Get(progress_call')
        after == GetDownloadProgress(progress_dir', progress_mtime', w, n)
    IN IF call.op = "save" /\ call.user = w /\ call.novel_url = n
       THEN /\ IsSome(after)
            /\ Get(after) = progress_dir'[ProgressName(w, n)]
            /\ Get(after)._user_id = w
            /\ Get(after)._novel_url = n
       ELSE IF call.op = "clear" /\ call.user = w
               /\ call.novel_url \in {n, NoNovel}
            THEN after = None
            ELSE after = GetDownloadProgress(progress_dir, progress_mtime,
                                               w, n)

C23_ProgressLookup ==
  /\ \A w \in ProgressUsers, n \in CacheNovels \cup {NoNovel} :
       GetDownloadProgress(progress_dir, progress_mtime, w, n) = None
  /\ [][/\ LookupWithNovel
        /\ LookupWithoutNovel(progress_dir', progress_mtime')]_vars

\* a lookup without a novel returned a record although a completed record of
\* the same user and a record of the other user were written after it
C23_Witness ==
  /\ IsSome(progress_call)
  /\ Get(progress_call).op = "get"
  /\ Get(progress_call).novel_url = NoNovel
  /\ Get(progress_call).user = "1"
  /\ Len(progress_mtime) = 3
  /\ progress_dir[progress_mtime[1]]._user_id = "1"
  /\ Get(progress_call).result = Some(progress_dir[progress_mtime[1]])
  /\ progress_dir[progress_mtime[2]]._user_id = "1"
  /\ progress_dir[progress_mtime[2]].status = "completed"
  /\ progress_dir[progress_mtime[3]]._user_id = "12"
  /\ progress_dir[progress_mtime[3]].status = "partial"

\* C24: progress_callback is called once for each unit the loop books, the
\* count of these calls goes up by one from call to call and never passes
\* the total, every call of the job carries the same total, and the last
\* call of a job that was not cancelled reports completed = total
UnitCalls == Tail(progress_calls)

BookedUnits ==
  Len(completed_urls) + Len(failed_urls) - (total_to_download - Len(futures))

CallsMatchUnits ==
  /\ pc \in {"downloading", "cancelling", "joining"}
       => Len(UnitCalls) = BookedUnits
  /\ \A k \in 1..(Len(UnitCalls) - 1) :
       UnitCalls[k + 1][1] = UnitCalls[k][1] + 1
  /\ \A k \in DOMAIN progress_calls :
       /\ progress_calls[k][1] <= progress_calls[k][2]
       /\ progress_calls[k][2] = progress_calls[1][2]

LastCallReportsTotal ==
  (pc = "done" /\ ~cancelled /\ ~Get(result).error)
    => progress_calls[Len(progress_calls)][1]
         = progress_calls[Len(progress_calls)][2]

C24_ProgressReporting ==
  progress_calls /= <<>> => CallsMatchUnits /\ LastCallReportsTotal

\* C25: once every _track_bandwidth call has returned, bandwidth_bytes is the
\* sum of the sizes of the tracked responses, whatever the interleaving;
\* and no update of _site_health_cache removes the entry of a host
NoFetchInFlight == \A t \in PoolThreads : tb[t].pc = "out"

HealthEntriesKept ==
  \A h \in Hosts : IsSome(site_health_cache[h]) => IsSome(site_health_cache'[h])

C25_SharedCounters ==
  [][/\ NoFetchInFlight' => bandwidth_bytes' = tracked.bytes'
     /\ HealthEntriesKept]_vars

InChapterDownload == IsSome(tier_op) /\ Get(tier_op).op = "chapter"

HttpBefore(k) == \E j \in 1..(k - 1) : tier_log[j] = "http"

C28_DiscardOnlyIfBoth ==
  [][\A i \in 1..(MaxLinks + 1), t \in Titles, b \in Bodies :
       (IsNovelBuddy(novel) /\ ShouldCache(b) /\ FetchChapter(i, t, b))
       => LET e == futures[i].num
              u == futures[i].url
              title_agrees == TitleNumber(t) = Some(e)
              url_agrees == _extract_chapter_number(u) = e
          IN /\ futures'[i].mismatch => ~title_agrees /\ ~url_agrees
             /\ (title_agrees \/ url_agrees)
                  => /\ futures'[i].result = Some(ChapterData(u, e, t, b))
                     /\ chapterCache'[novel][u] = Some(ChapterData(u, e, t, b))
    ]_vars

\* C29: between two close() calls the cookie-seeded context is made at most
\* once, and the context an authenticated fetch works in is that one and was
\* made in the browser the scraper holds now
C29_ContextBuiltOnce ==
  /\ contexts_created <= 1
  /\ auth_pc \in AuthFetches
       => /\ auth_used = webnovel_context
          /\ IsSome(auth_used)
          /\ Get(auth_used).browser = Get(ps_browser)

\* C30: a Ranobes job that starts at chapter 1 returns the front-matter
\* chapter it collected as its first entry, numbered 0 and titled
\* 'Prologue'; the other entries are numbered 1, 2, ... and are at most
\* chapter_end many; and an entry is numbered 0 or titled 'Prologue' only if
\* it is a collected front-matter chapter
ReturnsChapters ==
  /\ pc /= "done"
  /\ pc' = "done"
  /\ IsSome(result')
  /\ ~Get(result').error

FrontMatter == {k \in DOMAIN chapters : chapters[k].title = "Prologue"}

LabelledPrologue(ch) == ch.chapter_num = 0 \/ ch.title = "Prologue"

IsMainChapter(ch) == ~LabelledPrologue(ch)

PrologueEntryFirst(out) ==
  FrontMatter /= {}
    => /\ out /= <<>>
       /\ out[1].chapter_num = 0
       /\ out[1].title = "Prologue"
       /\ \E j \in FrontMatter : chapters[j].url = out[1].url

MainChaptersFromOne(out) ==
  LET main == SelectSeq(out, IsMainChapter)
  IN /\ \A i \in DOMAIN main : main[i].chapter_num = i
     /\ job.chapter_end /= 0 => Len(main) <= job.chapter_end

OnlyFrontMatterLabelled(out) ==
  \A k \in DOMAIN out :
    LabelledPrologue(out[k])
      => \E j \in FrontMatter : chapters[j].url = out[k].url

C30_PrologueRenumbering ==
  [][(IsRanobes(novel) /\ job.chapter_start = 1 /\ ReturnsChapters)
       => /\ PrologueEntryFirst(Get(result').chapters)
          /\ MainChaptersFromOne(Get(result').chapters)
          /\ OnlyFrontMatterLabelled(Get(result').chapters)]_vars

\* C31: whenever the scraper holds a live browser, the context _ensure_browser
\* returns has the route that aborts image, media, font and stylesheet
\* requests, also after a relaunch; and so has the context an authenticated
\* fetch works in
C31_BlockingOnLiveContexts ==
  /\ (~NoLiveBrowser /\ IsSome(ps_context)) => context_route
  /\ (auth_pc \in AuthFetches /\ IsSome(auth_used)) => Get(auth_used).blocking

\* C32: check_site_health answers from the table without a probe only if the
\* domain has an entry younger than 5 minutes, and then with the stored
\* result; with no entry or a stale one it probes, reports healthy exactly
\* for a status below 400 (an exception is unhealthy) and leaves that outcome
\* as the domain's entry; no domain without an entry is reported without a
\* probe
FiveMinutes == 5 * 60

YoungEntry(c) == c.before /= <<>> /\ c.at - c.before[1] < FiveMinutes

C32_SiteHealthTTL ==
  health_call /= <<>> =>
    LET c == health_call
    IN /\ ~c.probed => YoungEntry(c) /\ c.result = c.before[2]
       /\ ~YoungEntry(c) => c.probed
       /\ c.probed =>
            /\ c.result = (c.outcome /= None /\ Get(c.outcome) < 400)
            /\ _site_health_cache[c.key][2] = c.result
            /\ _site_health_cache[c.key][1] >= c.at

\* an entry found healthy went stale and the new probe found the site dead
C32_Witness ==
  /\ health_call /= <<>>
  /\ health_call.probed
  /\ health_call.before /= <<>>
  /\ health_call.before[2]
  /\ ~health_call.result
  /\ health_call.at - health_call.before[1] = FiveMinutes

\* C33: a job with a user_id has its record written with status
\* 'in_progress' when the download phase is entered, before any unit is
\* dispatched, and a unit is dispatched only while the pair has a record;
\* when scrape() returns from the download phase (normally, after a cancel
\* or through its exception handler) the pair has no record or one with
\* status 'partial' or 'failed'
InDownloadPhase == pc \in {"downloading", "cancelling", "joining", "raising"}

JobRecord(store) == store[user_id][novel]

C33_ProgressLifecycle ==
  [][HasUser =>
       /\ (pc = "metadata" /\ pc' = "downloading")
            => /\ IsSome(JobRecord(progress'))
               /\ Get(JobRecord(progress')).status = "in_progress"
               /\ \A i \in DOMAIN futures' : futures'[i].state = "pending"
       /\ (\E i \in 1..(MaxLinks + 1) : StartDownload(i))
            => IsSome(JobRecord(progress))
       /\ (InDownloadPhase /\ pc' = "done")
            => \/ JobRecord(progress') = None
               \/ Get(JobRecord(progress')).status \in {"partial", "failed"}
    ]_vars

\* a job left through the exception handler, its record marked 'failed' with
\* a chapter it had completed
C33_Witness ==
  /\ HasUser
  /\ pc = "done"
  /\ IsSome(result) /\ Get(result).error
  /\ IsSome(JobRecord(progress))
  /\ Get(JobRecord(progress)).status = "failed"
  /\ Get(JobRecord(progress)).completed_chapters /= <<>>

\* C34: in a resumed job over a listing without repeated links every
\* dispatched unit carries chapter_start plus the index of its link in the
\* target list, whatever targets were in the cache, and no two units of the
\* job carry the same number
TargetPosition(u) == CHOOSE k \in DOMAIN JobTargets : JobTargets[k] = u

C34_ExpectedNumberOnResume ==
  (InDownloadPhase /\ IsSome(resume_info) /\ NoRepeat(chapter_links))
    => /\ \A i \in DOMAIN futures :
            futures[i].num
              = job.chapter_start + (TargetPosition(futures[i].url) - 1)
       /\ \A i, j \in DOMAIN futures :
            futures[i].num = futures[j].num => i = j

\* C36: every unit whose download had finished with a chapter when the
\* cancellation is observed is booked in completed_urls; the cancel branch
\* writes completed_urls as the record's completed_chapters; completed_urls
\* and the collected chapters stay as they are until the job returns; and the
\* job returns a chapter for every URL of completed_urls
FinishedWithChapter ==
  {i \in DOMAIN futures :
     futures[i].state = "done" /\ IsSome(futures[i].result)}

C36_NoCompletedWorkLost ==
  [][/\ (pc = "downloading" /\ pc' = "cancelling")
          => \A i \in FinishedWithChapter :
               futures[i].url \in Range(completed_urls')
     /\ (pc = "cancelling" /\ pc' = "joining" /\ HasUser)
          => Get(JobRecord(progress')).completed_chapters = completed_urls
     /\ (pc \in {"cancelling", "joining"} /\ pc' /= "done")
          => /\ completed_urls' = completed_urls
             /\ chapters' = chapters
     /\ (pc = "joining" /\ pc' = "done")
          => Range(completed_urls) \subseteq Range(UrlsOf(Get(result').chapters))
    ]_vars

\* C35: a coroutine that has called _ensure_webnovel_context, with or
\* without a live browser, eventually has the call return: it does not wait
\* forever for _pw_semaphore or for the instance lock
InWebnovelCall(t) ==
  frames[t] /= <<>> /\ frames[t][1].fn = "_ensure_webnovel_context"

C35_NoSelfDeadlock ==
  \A t \in GateTasks : InWebnovelCall(t) ~> (frames[t] = <<>>)

\* C37: when a job without prologue handling over a listing without repeated
\* links returns, every chapter of its result carries chapter_start plus the
\* index of its link in the target list, whichever units failed
C37_NumbersSurviveFailures ==
  [][(/\ InDownloadPhase /\ pc' = "done"
      /\ ~Get(result').error
      /\ ~IncludePrologue(novel, job.chapter_start)
      /\ NoRepeat(chapter_links))
       => \A k \in DOMAIN Get(result').chapters :
            LET ch == Get(result').chapters[k]
            IN  ch.chapter_num
                  = job.chapter_start + (TargetPosition(ch.url) - 1)
    ]_vars

\* C38: a job polls only the cancel flag of its own user, reports progress
\* only to its own user's callback, runs with the worker count of its own
\* user's tier, and is stopped only by its own user's cancel
C38_JobIsolation ==
  \A u \in BotUsers :
    /\ bot_job[u].polled \subseteq {u}
    /\ bot_job[u].reported \subseteq {u}
    /\ bot_job[u].pc \in {"looping", "returned"}
         => bot_job[u].workers = TierWorkers(bot_job[u].tier)
    /\ IsSome(bot_job[u].stopped_by) => bot_job[u].stopped_by = Some(u)

\* C39: when the bot exits with code 0 the supervisor stops and counts
\* nothing; after a crash it restarts the bot unless the counter has passed
\* MAX_RESTART_ATTEMPTS (5), and then it gives up; the crash sets the counter
\* to 1 exactly when more than COOLDOWN_PERIOD has passed since the crash
\* before it and adds one otherwise; so, the supervisor itself raising
\* nothing, the counter is the length of the current run of crashes that
\* came within the cooldown of one another, and the supervisor gives up at
\* the 6th crash of such a run and not before
C39_SupervisorRestartBound ==
  [][/\ \A ran \in RunTimes :
          BotExits(0, ran)
            => /\ supervisor_pc' = "stopped"
               /\ restart_count' = restart_count
     /\ \A ran \in RunTimes :
          BotExits(1, ran)
            => LET crashed_at == supervisor_now + ran
                   late == /\ last_restart_time /= None
                           /\ crashed_at - Get(last_restart_time) > 60
               IN  /\ restart_count' = IF late THEN 1 ELSE restart_count + 1
                   /\ supervisor_pc' = IF restart_count' > 5 THEN "gave_up"
                                       ELSE "launch"
     /\ ~supervisor_errors'
          => /\ restart_count' = crash_run'
             /\ supervisor_pc' = "gave_up" <=> crash_run' = 6
    ]_vars

\* the supervisor gave up at the 6th of six crashes in a row, after an
\* earlier crash that the cooldown had separated from them
C39_Witness ==
  /\ supervisor_pc = "gave_up"
  /\ ~supervisor_errors
  /\ crash_run = 6
  /\ supervisor_now > 6 * 61

====
